---------------------------- MODULE Spec2Model ----------------------------
(***************************************************************************)
(* flowdoc: static extraction of flow graphs from decorated Python code.   *)
(*                                                                         *)
(* The model follows src/flowdoc/parser.py.  A source file is its parsed   *)
(* tree (or the fact that it does not parse); the parser's functions are   *)
(* operators over trees, and the two entry points, parse_file and          *)
(* parse_directory, are the actions of the state machine.                  *)
(*                                                                         *)
(* Text is a sequence of tokens: an identifier is one token and "." is a   *)
(* token of its own, so "orders.validation.f" is                           *)
(* <<"orders", ".", "validation", ".", "f">>.  Python identifiers hold no  *)
(* ".", so str concatenation, equality and endswith(".x") coincide on the  *)
(* two representations.                                                    *)
(*                                                                         *)
(* Left out of the trees: line numbers, docstrings, function arguments.    *)
(* The parser copies them through and never branches on them.              *)
(***************************************************************************)
EXTENDS Integers, Sequences, FiniteSets, TLC

VARIABLES
    mode,           \* the entry point under way: "file" parse_file(files[1]); "dir"
                    \* parse_directory over files; "registry" calls on a StepRegistry;
                    \* "path" _path_to_module; "discover" discover_python_files
    files,          \* the source files handed to the run, in discovery order
    root_is_file,   \* the root given to the entry point is a .py file, not a directory
    pc,             \* "start", "pass1", "pass2", "done", "failed"; cli: "rejected",
                    \* "exited", "aborted"
    idx,            \* parse_directory: position of the loop in progress
    file_asts,      \* parse_directory: indices of the files parsed in pass 1, in order
    reg_steps,      \* StepRegistry._steps: ordered dict, a sequence of [k, v]
    reg_module_steps, \* StepRegistry._module_steps: ordered dict module -> keys
    flows,          \* the list of FlowData returned
    warnings,       \* every warnings.warn call of the run, in order
    raised,         \* the exception that left the entry point, or NoneVal
    command,        \* cli: the command that called parse_directory, or NoneVal
    exit_code,      \* cli: the status the command exits with, <<>> before it exits
    echoed,         \* cli: the messages written by click.echo, in order
    written,        \* cli: the paths of the diagram files written, in order
    registered,     \* registry: the register calls made so far, [module_path, step]
    resolved,       \* registry: the resolve call made, <<[from_module, call_name, result]>>
    arg_root,       \* path: the parts of the root given to parse_directory
    arg_src_root,   \* path: the src_root given to parse_directory, <<>> for None
                    \*       or "", else <<path>>
    src_root_path,  \* path: <<the designated root>>, <<>> before it is computed
    arg_file_path,  \* path: the parts of the path of the file
    ret_module,     \* path: the dotted module path returned, <<>> before the call
    cwd,            \* path: the working directory, an absolute path
    symlinks,       \* path: the symbolic links of the file system, a set of [from, to]
    root_dir,       \* discover: the directory tree under the root
    exclude_patterns, \* discover: the caller's additional names to exclude
    walk,           \* discover: the call stack of _walk, a sequence of frames
    python_files    \* discover: the list of paths collected so far

parser_vars == <<mode, files, root_is_file, pc, idx, file_asts, reg_steps,
                 reg_module_steps, flows, warnings, raised>>
cli_vars == <<command, exit_code, echoed, written>>
registry_vars == <<registered, resolved>>
path_vars == <<arg_root, arg_src_root, src_root_path, arg_file_path, ret_module, cwd,
               symlinks>>
discovery_vars == <<root_dir, exclude_patterns, walk, python_files>>

vars == <<parser_vars, cli_vars, registry_vars, path_vars, discovery_vars>>

\* Python's None, where a str is expected.
NoneVal == "<None>"

-----------------------------------------------------------------------------
(* Helpers over sequences and ordered dicts (Python dicts keep insertion    *)
(* order; assigning to a present key keeps its position).                   *)

RECURSIVE Concat(_)
Concat(ss) == IF ss = <<>> THEN <<>> ELSE Head(ss) \o Concat(Tail(ss))

Range(s) == {s[i] : i \in DOMAIN s}

DictKeys(d) == [i \in DOMAIN d |-> d[i].k]

DictHas(d, key) == \E i \in DOMAIN d : d[i].k = key

DictGet(d, key) == d[CHOOSE i \in DOMAIN d : d[i].k = key].v

DictSet(d, key, val) ==
    IF DictHas(d, key)
    THEN [i \in DOMAIN d |-> IF d[i].k = key THEN [k |-> key, v |-> val] ELSE d[i]]
    ELSE Append(d, [k |-> key, v |-> val])

\* dict built by assigning the pairs of ps in order.
RECURSIVE DictFrom(_, _)
DictFrom(d, ps) ==
    IF ps = <<>> THEN d
    ELSE DictFrom(DictSet(d, Head(ps).k, Head(ps).v), Tail(ps))

EndsWith(s, suffix) ==
    /\ Len(suffix) <= Len(s)
    /\ SubSeq(s, Len(s) - Len(suffix) + 1, Len(s)) = suffix

-----------------------------------------------------------------------------
(* Syntax trees.                                                            *)
(*   call      [shape, id, awaited, args]                                   *)
(*             shape "self": self.id(...); "name": id(...);                 *)
(*             "attr": obj.id(...) with obj not self; "other": any other    *)
(*             callee.  awaited: the call is the operand of an await.       *)
(*   statement [kind, call, test, body, orelse]                             *)
(*             kind "expr": a statement holding the call (expression,       *)
(*             return, assignment); "if": ast.If with the calls of its      *)
(*             test, its body and its orelse; "block": a for/while/with     *)
(*             with its body.                                               *)
(*   decorator [shape, id, keywords]                                        *)
(*             shape "name": @id; "attr": @q.id; "call_name": @id(...);     *)
(*             "call_attr": @q.id(...); "call_other": a call of any other   *)
(*             callee; "other": any other expression.  q is not self.       *)
(*   keyword   [arg, vkind, value, calls]                                   *)
(*             arg NoneVal for **kwargs; vkind "str": a str Constant of     *)
(*             the given value; "const": a Constant that is no str;         *)
(*             "dynamic": any other expression, holding the given calls.    *)
(*   def       [kind, name, decorators, body]                               *)
(*             kind "func" (def) or "async_func" (async def), with a body   *)
(*             of statements, or "class", with a body of defs.              *)

Call(shape, id) == [shape |-> shape, id |-> id, awaited |-> FALSE, args |-> <<>>]
CallArgs(shape, id, args) == [shape |-> shape, id |-> id, awaited |-> FALSE, args |-> args]
Await(c) == [c EXCEPT !.awaited = TRUE]

NoCall == Call("other", NoneVal)

Expr(c) == [kind |-> "expr", call |-> c, test |-> <<>>, body |-> <<>>, orelse |-> <<>>]
If(test, body, orelse) ==
    [kind |-> "if", call |-> NoCall, test |-> test, body |-> body, orelse |-> orelse]
Block(body) ==
    [kind |-> "block", call |-> NoCall, test |-> <<>>, body |-> body, orelse |-> <<>>]

Kw(arg, vkind, value) == [arg |-> arg, vkind |-> vkind, value |-> value, calls |-> <<>>]
KwCall(arg, c) == [arg |-> arg, vkind |-> "dynamic", value |-> NoneVal, calls |-> <<c>>]

Deco(shape, id, keywords) == [shape |-> shape, id |-> id, keywords |-> keywords]

Func(name, decorators, body) ==
    [kind |-> "func", name |-> name, decorators |-> decorators, body |-> body]
AsyncFunc(name, decorators, body) ==
    [kind |-> "async_func", name |-> name, decorators |-> decorators, body |-> body]
Class(name, decorators, body) ==
    [kind |-> "class", name |-> name, decorators |-> decorators, body |-> body]

\* isinstance(node, ast.FunctionDef) alone: async definitions are passed over.
IsFunctionDefSyncOnly(node) == node.kind = "func"

\* isinstance(node, (ast.FunctionDef, ast.AsyncFunctionDef))
IsFunctionDef(node) == node.kind \in {"func", "async_func"}
\* isinstance(node, ast.ClassDef)
IsClassDef(node) == node.kind = "class"


-----------------------------------------------------------------------------
(* FlowCallVisitor: the visitor state is [calls_to_steps, current_branch].  *)

Edge(from_step, to_step, branch) ==
    [from_step |-> from_step, to_step |-> to_step, branch |-> branch]

NewVisitor == [calls_to_steps |-> <<>>, current_branch |-> NoneVal]

\* visit_Call, lines 36-45: the candidate target of a call, or NoneVal.
TargetName(c) ==
    IF c.shape = "attr" \/ c.shape = "self"
    THEN (IF c.shape = "self" THEN c.id ELSE NoneVal)
    ELSE IF c.shape = "name" THEN c.id
    ELSE NoneVal

\* visit_Call recording every call of an accepted shape, known or not.
RecordCallUnchecked(c, v, decorated_steps) ==
    IF TargetName(c) # NoneVal
    THEN [v EXCEPT !.calls_to_steps =
              Append(@, Edge("", TargetName(c), v.current_branch))]
    ELSE v

\* visit_Call, lines 47-55: the edge recorded for the call itself.
RecordCall(c, v, decorated_steps) ==
    IF TargetName(c) # NoneVal /\ TargetName(c) \in decorated_steps
    THEN [v EXCEPT !.calls_to_steps =
              Append(@, Edge("", TargetName(c), v.current_branch))]
    ELSE v

RECURSIVE VisitCall(_, _, _)
RECURSIVE VisitExprs(_, _, _)
RECURSIVE VisitStmt(_, _, _)
RECURSIVE VisitStmts(_, _, _)

\* visit_Await that does not go on into the awaited expression.
VisitAwaitNoDescent(c, v, decorated_steps) == v

\* visit_Await: generic_visit reaches the Call under the Await.
VisitAwait(c, v, decorated_steps) == VisitCall(c, v, decorated_steps)

\* An expression that is a call, awaited or not.
VisitExpr(c, v, decorated_steps) ==
    IF c.awaited THEN VisitAwait(c, v, decorated_steps)
    ELSE VisitCall(c, v, decorated_steps)

VisitExprs(cs, v, decorated_steps) ==
    IF cs = <<>> THEN v
    ELSE VisitExprs(Tail(cs), VisitExpr(Head(cs), v, decorated_steps), decorated_steps)

\* visit_Call: record, then generic_visit over the arguments.
VisitCall(c, v, decorated_steps) ==
    VisitExprs(c.args, RecordCall(c, v, decorated_steps), decorated_steps)

\* visit_If with the orelse visited under the label of the body.
VisitIfOneLabel(s, v, decorated_steps) ==
    LET old_branch == v.current_branch
        v1 == VisitStmts(s.body \o s.orelse, [v EXCEPT !.current_branch = "if"],
                         decorated_steps)
    IN  [v1 EXCEPT !.current_branch = old_branch]

\* visit_If that leaves the slot as its last arm set it.
VisitIfNoRestore(s, v, decorated_steps) ==
    LET v1 == VisitStmts(s.body, [v EXCEPT !.current_branch = "if"], decorated_steps)
    IN  IF s.orelse # <<>>
        THEN VisitStmts(s.orelse, [v1 EXCEPT !.current_branch = "else"], decorated_steps)
        ELSE v1

\* visit_If: save the slot, "if" over body, "else" over a non-empty orelse,
\* restore.  node.test is not visited.
VisitIf(s, v, decorated_steps) ==
    LET old_branch == v.current_branch
        v1 == VisitStmts(s.body, [v EXCEPT !.current_branch = "if"], decorated_steps)
        v2 == IF s.orelse # <<>>
              THEN VisitStmts(s.orelse, [v1 EXCEPT !.current_branch = "else"],
                              decorated_steps)
              ELSE v1
    IN  [v2 EXCEPT !.current_branch = old_branch]

\* NodeVisitor.visit: dispatch on the node's class; generic_visit for the rest.
VisitStmt(s, v, decorated_steps) ==
    IF s.kind = "if" THEN VisitIf(s, v, decorated_steps)
    ELSE IF s.kind = "block" THEN VisitStmts(s.body, v, decorated_steps)
    ELSE VisitExpr(s.call, v, decorated_steps)

VisitStmts(ss, v, decorated_steps) ==
    IF ss = <<>> THEN v
    ELSE VisitStmts(Tail(ss), VisitStmt(Head(ss), v, decorated_steps), decorated_steps)

\* generic_visit of one decorator: a call decorator is itself a Call node
\* (callee id, or q.id with q not self), followed by its keyword values.
DecoratorAsCall(d) ==
    CallArgs(IF d.shape = "call_name" THEN "name"
             ELSE IF d.shape = "call_attr" THEN "attr" ELSE "other",
             d.id,
             Concat([i \in DOMAIN d.keywords |-> d.keywords[i].calls]))

VisitDecorator(d, v, decorated_steps) ==
    IF d.shape \in {"call_name", "call_attr", "call_other"}
    THEN VisitCall(DecoratorAsCall(d), v, decorated_steps)
    ELSE v

RECURSIVE VisitDecorators(_, _, _)
VisitDecorators(ds, v, decorated_steps) ==
    IF ds = <<>> THEN v
    ELSE VisitDecorators(Tail(ds), VisitDecorator(Head(ds), v, decorated_steps),
                         decorated_steps)

\* _find_step_calls: visitor.visit(function_node) is generic_visit over the
\* FunctionDef's fields, body before decorator_list.
FindStepCalls(function_node, decorated_steps) ==
    VisitDecorators(function_node.decorators,
                    VisitStmts(function_node.body, NewVisitor, decorated_steps),
                    decorated_steps).calls_to_steps

-----------------------------------------------------------------------------
(* Decorators.                                                              *)

FLOW_DECORATOR_NAMES == {"flow", "business_flow"}
STEP_DECORATOR_NAMES == {"step", "business_step", "flow_step"}

\* isinstance(decorator, ast.Call) with func a Name / an Attribute.
IsCallOfName(d) == d.shape = "call_name"
IsCallOfAttribute(d) == d.shape = "call_attr"
IsCall(d) == d.shape \in {"call_name", "call_attr", "call_other"}

\* _is_step_decorator without pattern 2, the call of a qualified name.
IsStepDecoratorNoQualified(d) ==
    IF IsCallOfName(d) THEN d.id \in STEP_DECORATOR_NAMES
    ELSE IF d.shape = "name" THEN d.id \in STEP_DECORATOR_NAMES
    ELSE FALSE

IsStepDecorator(d) ==
    IF IsCallOfName(d) THEN d.id \in STEP_DECORATOR_NAMES
    ELSE IF IsCallOfAttribute(d) THEN d.id \in STEP_DECORATOR_NAMES
    ELSE IF d.shape = "name" THEN d.id \in STEP_DECORATOR_NAMES
    ELSE FALSE

IsFlowDecorator(d) ==
    IF IsCallOfName(d) THEN d.id \in FLOW_DECORATOR_NAMES
    ELSE IF IsCallOfAttribute(d) THEN d.id \in FLOW_DECORATOR_NAMES
    ELSE IF d.shape = "name" THEN d.id \in FLOW_DECORATOR_NAMES
    ELSE FALSE

HasStepDecorator(node) ==
    \E i \in DOMAIN node.decorators : IsStepDecorator(node.decorators[i])

HasFlowDecorator(node) ==
    \E i \in DOMAIN node.decorators : IsFlowDecorator(node.decorators[i])

\* _extract_decorator_args, lines 291-293: the keyword is put in args.
KeywordHonoured(kw) == kw.arg # NoneVal /\ kw.vkind = "str"

\* _extract_decorator_args, lines 294-301: the keyword is warned about.
KeywordWarned(kw) == kw.arg # NoneVal /\ kw.vkind \notin {"str", "const"}

\* _extract_decorator_args: the dict of honoured keywords.
ExtractDecoratorArgs(d) ==
    IF ~IsCall(d) THEN <<>>
    ELSE DictFrom(<<>>,
             [i \in DOMAIN SelectSeq(d.keywords, KeywordHonoured) |->
                 [k |-> SelectSeq(d.keywords, KeywordHonoured)[i].arg,
                  v |-> SelectSeq(d.keywords, KeywordHonoured)[i].value]])

Warning(kind, arg, file) == [kind |-> kind, arg |-> arg, file |-> file]

\* _extract_decorator_args: its warnings.warn calls, in order.
DecoratorArgWarnings(d) ==
    IF ~IsCall(d) THEN <<>>
    ELSE [i \in DOMAIN SelectSeq(d.keywords, KeywordWarned) |->
             Warning("dynamic_arg", SelectSeq(d.keywords, KeywordWarned)[i].arg, 0)]

\* dict.get(key, default)
ArgsGet(args, key, default) == IF DictHas(args, key) THEN DictGet(args, key) ELSE default

\* The decorator at which the loop "for decorator in decorator_list: if
\* _is_step_decorator(decorator): ... break" stops, as a sequence of length 0 or 1.
FirstStepDecorator(node) ==
    IF HasStepDecorator(node)
    THEN <<node.decorators[CHOOSE i \in DOMAIN node.decorators :
               /\ IsStepDecorator(node.decorators[i])
               /\ \A j \in 1..(i - 1) : ~IsStepDecorator(node.decorators[j])]>>
    ELSE <<>>

\* The same for the loop over a class's decorators with _is_flow_decorator.
FirstFlowDecorator(node) ==
    IF HasFlowDecorator(node)
    THEN <<node.decorators[CHOOSE i \in DOMAIN node.decorators :
               /\ IsFlowDecorator(node.decorators[i])
               /\ \A j \in 1..(i - 1) : ~IsFlowDecorator(node.decorators[j])]>>
    ELSE <<>>

StepData(name, function_name, description, calls) ==
    [name |-> name, function_name |-> function_name,
     description |-> description, calls |-> calls]

\* _extract_step_metadata (calls is filled in by its callers).
ExtractStepMetadata(func_node) ==
    LET ds   == FirstStepDecorator(func_node)
        args == IF ds = <<>> THEN <<>> ELSE ExtractDecoratorArgs(ds[1])
    IN  IF ds = <<>>
        THEN StepData(func_node.name, func_node.name, "", <<>>)
        ELSE StepData(ArgsGet(args, "name", func_node.name), func_node.name,
                      ArgsGet(args, "description", ""), <<>>)

\* The warnings of one _extract_step_metadata call.
StepMetadataWarnings(func_node) ==
    LET ds == FirstStepDecorator(func_node)
    IN  IF ds = <<>> THEN <<>> ELSE DecoratorArgWarnings(ds[1])

-----------------------------------------------------------------------------
(* Flow assembly.                                                           *)

FlowData(name, type, steps, edges, description) ==
    [name |-> name, type |-> type, steps |-> steps, edges |-> edges,
     description |-> description]

\* ast.walk(tree) restricted to function definitions: breadth first, the
\* functions among the nodes of one level, then those of the next level, which
\* is the bodies of the level's classes in turn, down to any depth.
RECURSIVE WalkFunctionDefs(_)
WalkFunctionDefs(tree) ==
    IF tree = <<>> THEN <<>>
    ELSE SelectSeq(tree, IsFunctionDef)
         \o WalkFunctionDefs(Concat([i \in DOMAIN tree |->
                                        IF IsClassDef(tree[i]) THEN tree[i].body
                                        ELSE <<>>]))

\* _collect_all_steps: dict name -> node.
CollectAllSteps(tree) ==
    DictFrom(<<>>,
        [i \in DOMAIN SelectSeq(WalkFunctionDefs(tree), HasStepDecorator) |->
            [k |-> SelectSeq(WalkFunctionDefs(tree), HasStepDecorator)[i].name,
             v |-> SelectSeq(WalkFunctionDefs(tree), HasStepDecorator)[i]]])

\* decorated_methods filled from the last definition of the class to the first.
DecoratedMethodsReversed(class_node) ==
    LET ms == SelectSeq(SelectSeq(class_node.body, IsFunctionDef), HasStepDecorator)
    IN  DictFrom(<<>>, [i \in DOMAIN ms |->
                          [k |-> ms[Len(ms) + 1 - i].name, v |-> ms[Len(ms) + 1 - i]]])

\* _extract_class_flow, lines 337-341: dict name -> node of the class's own steps.
DecoratedMethods(class_node) ==
    DictFrom(<<>>,
        [i \in DOMAIN SelectSeq(SelectSeq(class_node.body, IsFunctionDef), HasStepDecorator) |->
            [k |-> SelectSeq(SelectSeq(class_node.body, IsFunctionDef), HasStepDecorator)[i].name,
             v |-> SelectSeq(SelectSeq(class_node.body, IsFunctionDef), HasStepDecorator)[i]]])

\* One turn of the loops at lines 347-358 and 402-415: the step with its calls.
StepWithCalls(func_node, callable_steps) ==
    [ExtractStepMetadata(func_node) EXCEPT
        !.calls = FindStepCalls(func_node, callable_steps)]

\* The edges one step contributes to its flow.
StepEdges(from_name, func_node, callable_steps) ==
    LET connections == FindStepCalls(func_node, callable_steps)
    IN  [i \in DOMAIN connections |->
            Edge(from_name, connections[i].to_step, connections[i].branch)]

\* _extract_class_flow for a class that has a flow decorator.
ExtractClassFlow(class_node, callable_steps) ==
    LET fd      == FirstFlowDecorator(class_node)[1]
        args    == ExtractDecoratorArgs(fd)
        methods == DecoratedMethods(class_node)
    IN  FlowData(ArgsGet(args, "name", class_node.name),
                 "class",
                 [i \in DOMAIN methods |-> StepWithCalls(methods[i].v, callable_steps)],
                 Concat([i \in DOMAIN methods |->
                            StepEdges(methods[i].k, methods[i].v, callable_steps)]),
                 ArgsGet(args, "description", ""))

\* The warnings of one _extract_class_flow call on a flow class.
ClassFlowWarnings(class_node) ==
    LET methods == DecoratedMethods(class_node)
    IN  DecoratorArgWarnings(FirstFlowDecorator(class_node)[1])
        \o Concat([i \in DOMAIN methods |-> StepMetadataWarnings(methods[i].v)])

\* _extract_function_steps: the module's own functions named like a step.
ExtractFunctionSteps(tree, all_step_names) ==
    LET InAllSteps(node) == IsFunctionDef(node) /\ node.name \in all_step_names
    IN  SelectSeq(tree, InAllSteps)

\* _create_function_flow
CreateFunctionFlow(function_steps, callable_steps) ==
    FlowData("Function Flow",
             "function",
             [i \in DOMAIN function_steps |->
                 StepWithCalls(function_steps[i], callable_steps)],
             Concat([i \in DOMAIN function_steps |->
                        StepEdges(function_steps[i].name, function_steps[i],
                                  callable_steps)]),
             "Flow derived from standalone function")

FunctionFlowWarnings(function_steps) ==
    Concat([i \in DOMAIN function_steps |-> StepMetadataWarnings(function_steps[i])])

\* The classes of the module for which _extract_class_flow returns a flow.
FlowClasses(tree) ==
    LET IsFlowClass(node) == IsClassDef(node) /\ HasFlowDecorator(node)
    IN  SelectSeq(tree, IsFlowClass)

\* The flows of one tree: those of its flow classes, then the implicit one.
\* parse_file lines 172-191 and _parse_tree_with_registry lines 567-580,
\* which differ in callable_steps alone.
TreeFlows(tree, local_names, callable_steps) ==
    LET function_steps == ExtractFunctionSteps(tree, local_names)
    IN  [i \in DOMAIN FlowClasses(tree) |->
            ExtractClassFlow(FlowClasses(tree)[i], callable_steps)]
        \o (IF function_steps # <<>>
            THEN <<CreateFunctionFlow(function_steps, callable_steps)>>
            ELSE <<>>)

TreeFlowWarnings(tree, local_names) ==
    Concat([i \in DOMAIN FlowClasses(tree) |-> ClassFlowWarnings(FlowClasses(tree)[i])])
    \o FunctionFlowWarnings(ExtractFunctionSteps(tree, local_names))

\* parse_file past the parse: callable_steps are the file's own step names.
ParseFileFlows(tree) ==
    TreeFlows(tree, Range(DictKeys(CollectAllSteps(tree))),
              Range(DictKeys(CollectAllSteps(tree))))

-----------------------------------------------------------------------------
(* StepRegistry and module paths.                                           *)

\* ".".join(parts)
RECURSIVE Join(_)
Join(parts) ==
    IF parts = <<>> THEN <<>>
    ELSE IF Len(parts) = 1 THEN parts[1]
    ELSE parts[1] \o <<".">> \o Join(Tail(parts))

DropLast(s) == SubSeq(s, 1, Len(s) - 1)

\* _path_to_module that keeps a trailing __init__ component.
PathToModuleKeepInit(parts) ==
    LET last == parts[Len(parts)]
    IN  Join(IF EndsWith(last, <<".", "py">>)
             THEN Append(DropLast(parts), SubSeq(last, 1, Len(last) - 2))
             ELSE parts)

\* _path_to_module, lines 535-541, on the parts of the path relative to src_root.
PathToModule(parts) ==
    LET last     == parts[Len(parts)]
        stripped == IF EndsWith(last, <<".", "py">>)
                    THEN Append(DropLast(parts), SubSeq(last, 1, Len(last) - 2))
                    ELSE parts
    IN  Join(IF stripped[Len(stripped)] = <<"__init__">>
             THEN DropLast(stripped) ELSE stripped)

\* path.relative_to(base) is defined
IsRelativeTo(path, base) ==
    Len(base) <= Len(path) /\ SubSeq(path, 1, Len(base)) = base

\* path.relative_to(base), where it is defined
RelativeTo(path, base) == SubSeq(path, Len(base) + 1, Len(path))

\* Path.resolve() on the parts that are left, done being the resolved path so
\* far: a part ".." drops the last part of done (the root has no parent), any
\* other part is added, and when the path reached is a symbolic link its target
\* is resolved in its place.  links is a set of [from, to], two absolute paths,
\* from being the resolved place of the link; no chain of links is circular.
RECURSIVE ResolveParts(_, _, _)
ResolveParts(done, rest, links) ==
    IF rest = <<>> THEN done
    ELSE IF Head(rest) = <<"..">>
    THEN ResolveParts(IF Len(done) > 1 THEN DropLast(done) ELSE done, Tail(rest), links)
    ELSE LET here == Append(done, Head(rest))
             at   == {l \in links : l.from = here}
         IN  IF at = {} THEN ResolveParts(here, Tail(rest), links)
             ELSE ResolveParts(<<<<"/">>>>,
                               Tail((CHOOSE l \in at : TRUE).to) \o Tail(rest), links)

\* Path.resolve(): the path made absolute from the working directory dir, every
\* link on its way followed and every ".." taken.
ResolvePath(path, dir, links) ==
    LET absolute == IF path # <<>> /\ path[1] = <<"/">> THEN path ELSE dir \o path
    IN  ResolveParts(<<<<"/">>>>, Tail(absolute), links)

\* _path_to_module(file_path, src_root), lines 530-533: the resolved path relative
\* to the resolved src_root, or file_path as it was given when the resolved path
\* does not lie under the resolved src_root (the ValueError is caught).
RelativePath(file_path, base, dir, links) ==
    IF IsRelativeTo(ResolvePath(file_path, dir, links), ResolvePath(base, dir, links))
    THEN RelativeTo(ResolvePath(file_path, dir, links), ResolvePath(base, dir, links))
    ELSE file_path

\* _path_to_module, line 536: parts[-1] of a path without parts (the file is
\* src_root itself, or Path(".") outside src_root) raises IndexError.
PathToModuleRaises(file_path, base, dir, links) ==
    RelativePath(file_path, base, dir, links) = <<>>

\* _path_to_module(file_path, src_root), lines 530-541, where it returns.
PathToModuleFrom(file_path, base, dir, links) ==
    PathToModule(RelativePath(file_path, base, dir, links))

\* parse_directory, lines 484-490: the designated root.  given_src_root is <<>>
\* for a src_root that is None or "" and <<path>> for any other, Path(".")
\* being the path <<>>.
DesignatedRoot(root, given_src_root, is_file) ==
    IF given_src_root # <<>> THEN given_src_root[1]
    ELSE IF is_file THEN DropLast(root)
    ELSE root

\* f"{module_path}.{name}"
Qualified(module_path, name) == module_path \o <<".">> \o name

\* register that keeps the entry a key already has.
RegisterFirstWins(reg, module_path, step) ==
    LET qualified_name == Qualified(module_path, <<step.function_name>>)
    IN  [steps |-> IF DictHas(reg.steps, qualified_name) THEN reg.steps
                   ELSE DictSet(reg.steps, qualified_name, step),
         module_steps |->
            DictSet(reg.module_steps, module_path,
                    Append(IF DictHas(reg.module_steps, module_path)
                           THEN DictGet(reg.module_steps, module_path) ELSE <<>>,
                           qualified_name))]

\* StepRegistry.register on the pair (_steps, _module_steps).
Register(reg, module_path, step) ==
    LET qualified_name == Qualified(module_path, <<step.function_name>>)
    IN  [steps |-> DictSet(reg.steps, qualified_name, step),
         module_steps |->
            DictSet(reg.module_steps, module_path,
                    Append(IF DictHas(reg.module_steps, module_path)
                           THEN DictGet(reg.module_steps, module_path) ELSE <<>>,
                           qualified_name))]

RECURSIVE RegisterAll(_, _, _)
RegisterAll(reg, module_path, steps) ==
    IF steps = <<>> THEN reg
    ELSE RegisterAll(Register(reg, module_path, Head(steps)), module_path, Tail(steps))

\* resolve without its second rule: the calling module is not tried.
ResolveNoRelative(steps, from_module, call_name) ==
    IF DictHas(steps, call_name) THEN <<DictGet(steps, call_name)>>
    ELSE IF \E i \in DOMAIN steps : EndsWith(steps[i].k, <<".">> \o call_name)
    THEN <<steps[CHOOSE i \in DOMAIN steps :
               /\ EndsWith(steps[i].k, <<".">> \o call_name)
               /\ \A j \in 1..(i - 1) : ~EndsWith(steps[j].k, <<".">> \o call_name)].v>>
    ELSE <<>>

\* StepRegistry.resolve: the step found, as a sequence of length 0 (None) or 1.
Resolve(steps, from_module, call_name) ==
    IF DictHas(steps, call_name) THEN <<DictGet(steps, call_name)>>
    ELSE IF DictHas(steps, Qualified(from_module, call_name))
    THEN <<DictGet(steps, Qualified(from_module, call_name))>>
    ELSE IF \E i \in DOMAIN steps : EndsWith(steps[i].k, <<".">> \o call_name)
    THEN <<steps[CHOOSE i \in DOMAIN steps :
               /\ EndsWith(steps[i].k, <<".">> \o call_name)
               /\ \A j \in 1..(i - 1) : ~EndsWith(steps[j].k, <<".">> \o call_name)].v>>
    ELSE <<>>

\* StepRegistry.all_steps
AllSteps(steps) == [i \in DOMAIN steps |-> steps[i].v]

\* parse_directory, lines 509-512: the steps one file registers, in order.
FileRegistrations(tree) ==
    [i \in DOMAIN CollectAllSteps(tree) |-> ExtractStepMetadata(CollectAllSteps(tree)[i].v)]

FileRegistrationWarnings(tree) ==
    Concat([i \in DOMAIN CollectAllSteps(tree) |->
               StepMetadataWarnings(CollectAllSteps(tree)[i].v)])

\* combined_steps without the registry's steps: calls resolve within the file alone.
CombinedStepsLocalOnly(tree, steps) == Range(DictKeys(CollectAllSteps(tree)))

\* _parse_tree_with_registry, lines 559-565: the keys of combined_steps.
CombinedSteps(tree, steps) ==
    Range(DictKeys(CollectAllSteps(tree)))
    \cup {AllSteps(steps)[i].function_name : i \in DOMAIN steps}

\* _parse_tree_with_registry that takes no top-level function for a step.
ParseTreeWithRegistryNoLocal(tree, steps) ==
    TreeFlows(tree, {}, CombinedSteps(tree, steps))

\* _parse_tree_with_registry
ParseTreeWithRegistry(tree, steps) ==
    TreeFlows(tree, Range(DictKeys(CollectAllSteps(tree))), CombinedSteps(tree, steps))

-----------------------------------------------------------------------------
(* The inputs of a run.  A file is [parts, ok, tree]: the components of its *)
(* path below the root, whether its text parses, and its module body.       *)

MaxStmts == 2   \* statements in a generated step body
MaxDefs == 2    \* definitions in a generated class body or module body
MaxFiles == 2   \* files in a generated directory

\* The sequences over S of length at most n.
RECURSIVE SeqsUpTo(_, _)
SeqsUpTo(S, n) ==
    IF n = 0 THEN {<<>>}
    ELSE SeqsUpTo(S, n - 1)
         \cup {Append(s, x) : s \in {t \in SeqsUpTo(S, n - 1) : Len(t) = n - 1}, x \in S}

StepTag == Deco("name", "step", <<>>)
FlowTag == Deco("name", "flow", <<>>)

\* A file: the parts of its path below the root, whether reading and parsing
\* give a tree, the tree, the exception raised otherwise, and link, <<>> or
\* <<target>>, the absolute path the file is a symbolic link to.
File(parts, tree) ==
    [parts |-> parts, ok |-> TRUE, tree |-> tree, error |-> NoneVal, link |-> <<>>]
Unparseable(parts) ==
    [parts |-> parts, ok |-> FALSE, tree |-> <<>>, error |-> "SyntaxError",
     link |-> <<>>]
Failing(parts, error) == [Unparseable(parts) EXCEPT !.error = error]
Linked(parts, tree, target) == [File(parts, tree) EXCEPT !.link = <<target>>]

\* The exceptions other than SyntaxError that ast.parse raises on a text, and
\* those that reading the file raises.
OtherParseErrors == {"MemoryError", "RecursionError"}
ReadErrors == {"UnicodeDecodeError", "PermissionError"}

\* The root directory of a run (the directory of a root that is a file),
\* resolved; the targets of links that lie outside it.
RootPath == <<<<"/">>, <<"root">>>>
OutsideTarget == <<<<"/">>, <<"outside">>, <<"target", ".", "py">>>>
OutsideScript == <<<<"/">>, <<"outside">>, <<"target">>>>

\* The symbolic links on the way to a file of a run.
LinksOf(file) ==
    IF file.link # <<>> THEN {[from |-> RootPath \o file.parts, to |-> file.link[1]]}
    ELSE {}

\* discover_python_files, lines 52, 59 and 85: the path under which discovery
\* returns a file, the resolved root itself when the root is the file, else the
\* entry below the resolved root.
FoundPath(file, is_file) ==
    IF is_file THEN ResolvePath(RootPath \o file.parts, RootPath, LinksOf(file))
    ELSE RootPath \o file.parts

\* parse_directory, line 508: the module path of a file that discovery found,
\* src_root being the root directory.  The path of a file found is never the
\* root directory itself, so line 536 does not raise here.
ModulePathOf(file, is_file) ==
    PathToModuleFrom(FoundPath(file, is_file), RootPath, RootPath, LinksOf(file))

PathM == <<<<"m", ".", "py">>>>

\* --- step bodies ---------------------------------------------------------
BodyCalls ==
    {Call("self", "b"), Call("name", "c"), Call("self", "x"), Call("attr", "b"),
     Await(Call("self", "c")), CallArgs("name", "b", <<Await(Call("name", "c"))>>)}

BodyIfs ==
    {If(t, <<Expr(Call("self", "b"))>>, e) :
        t \in {<<>>, <<Call("name", "c")>>},
        e \in {<<>>, <<Expr(Call("self", "c"))>>, <<Expr(Await(Call("name", "x")))>>}}

BodyNested ==
    {If(<<>>, <<If(<<>>, <<Expr(Call("self", "b"))>>, <<>>), Expr(Call("self", "c"))>>,
        <<Expr(Call("self", "b"))>>),
     If(<<>>, <<Expr(Call("self", "b"))>>,
        <<If(<<>>, <<Expr(Await(Call("self", "c")))>>, <<Expr(Call("self", "b"))>>)>>),
     Block(<<Expr(Call("self", "b"))>>),
     Block(<<If(<<>>, <<Expr(Call("name", "c"))>>, <<Expr(Call("self", "x"))>>)>>)}

BodyStmts == {Expr(c) : c \in BodyCalls} \cup BodyIfs \cup BodyNested

Bodies == SeqsUpTo(BodyStmts, MaxStmts)

BodyTrees ==
    {<<Class("K", <<FlowTag>>,
             <<AsyncFunc("a", <<StepTag>>, body), Func("b", <<StepTag>>, <<>>),
               AsyncFunc("c", <<StepTag>>, <<>>)>>)>> : body \in Bodies}
    \cup
    {<<Func("a", <<StepTag>>, body), Func("b", <<StepTag>>, <<>>),
       AsyncFunc("c", <<StepTag>>, <<>>)>> : body \in Bodies}

\* --- decorators ----------------------------------------------------------
DecoShapes == {"name", "attr", "call_name", "call_attr", "call_other", "other"}
DecoIds == STEP_DECORATOR_NAMES \cup FLOW_DECORATOR_NAMES \cup {"task"}

KwLists ==
    {<<>>,
     <<Kw("name", "str", "N")>>,
     <<Kw("name", "const", NoneVal)>>,
     <<Kw("name", "dynamic", NoneVal)>>,
     <<Kw("description", "str", "D")>>,
     <<Kw("description", "dynamic", NoneVal)>>,
     <<Kw("name", "str", "N"), Kw("description", "const", NoneVal)>>,
     <<Kw("name", "dynamic", NoneVal), Kw("description", "dynamic", NoneVal)>>,
     <<Kw(NoneVal, "dynamic", NoneVal)>>,
     <<KwCall("name", Call("name", "b"))>>,
     <<Kw("label", "dynamic", NoneVal)>>}

Decos ==
    {Deco(sh, id, <<>>) : sh \in {"name", "attr", "other"}, id \in DecoIds}
    \cup {Deco(sh, id, kws) : sh \in {"call_name", "call_attr", "call_other"},
                              id \in DecoIds, kws \in KwLists}

DecoLists ==
    {<<d>> : d \in Decos}
    \cup {<<Deco("call_name", "task", <<Kw("name", "dynamic", NoneVal)>>),
            Deco("call_name", "step", <<Kw("name", "str", "N")>>)>>,
          <<Deco("call_name", "step", <<Kw("name", "str", "N")>>),
            Deco("call_attr", "business_step", <<Kw("name", "dynamic", NoneVal)>>)>>,
          <<Deco("name", "flow", <<>>),
            Deco("call_name", "flow", <<Kw("name", "dynamic", NoneVal)>>)>>}

DecoTrees ==
    {<<Func("a", ds, <<Expr(Call("name", "b"))>>), Func("b", <<StepTag>>, <<>>)>> :
        ds \in DecoLists}
    \cup {<<Class("K", cd, <<Func("a", ds, <<Expr(Call("self", "b"))>>),
                             Func("b", <<StepTag>>, <<>>)>>)>> :
             cd \in {<<>>, <<FlowTag>>}, ds \in DecoLists}
    \cup {<<Class("K", ds, <<Func("a", <<StepTag>>, <<Expr(Call("self", "b"))>>),
                             Func("b", <<StepTag>>, <<>>)>>)>> : ds \in DecoLists}

\* --- definitions and their order -----------------------------------------
StructFuncs ==
    {Func(n, t, <<Expr(Call("self", "a")), Expr(Call("name", "b"))>>) :
        n \in {"a", "b"},
        t \in {<<>>, <<StepTag>>, <<Deco("call_name", "step", <<Kw("name", "str", "N")>>)>>}}

StructTrees ==
    SeqsUpTo(StructFuncs, MaxDefs)
    \cup {side[1] \o <<Class("K", cd, ms)>> \o side[2] :
             cd \in {<<>>, <<FlowTag>>},
             ms \in SeqsUpTo(StructFuncs, MaxDefs),
             side \in {<<<<>>, <<>>>>} \cup {<<<<f>>, <<>>>> : f \in StructFuncs}
                      \cup {<<<<>>, <<f>>>> : f \in StructFuncs}}
    \cup {<<Class("K", <<FlowTag>>, <<f>>), Class("L", cd, <<g>>)>> :
             f \in StructFuncs, g \in StructFuncs, cd \in {<<>>, <<FlowTag>>}}

\* A class in a class: the step a is a method of the inner class H, and a step
\* of the module or of the outer class calls it.
NestedTrees ==
    {<<Class("K", cd, <<Class("H", <<>>, <<Func("a", t, <<>>)>>)>> \o ms)>> \o fs :
        cd \in {<<>>, <<FlowTag>>},
        t \in {<<StepTag>>, <<Deco("call_name", "step", <<Kw("name", "dynamic", NoneVal)>>)>>},
        ms \in {<<>>, <<Func("m", <<StepTag>>, <<Expr(Call("self", "a"))>>)>>},
        fs \in {<<>>, <<Func("b", <<StepTag>>, <<Expr(Call("name", "a"))>>)>>}}

\* An identifier defined again after another definition.
RedefinedTrees ==
    {<<Class("K", <<FlowTag>>, <<f, Func("c", <<StepTag>>, <<>>), g>>)>> :
        f \in StructFuncs, g \in StructFuncs}
    \cup {<<f, Func("c", <<StepTag>>, <<>>), g>> : f \in StructFuncs, g \in StructFuncs}

\* --- the order-processing container --------------------------------------
\* a calls b; b calls c in the body of an if and d in its orelse.
OrderBody(shape, awaited, id) ==
    Expr(IF awaited THEN Await(Call(shape, id)) ELSE Call(shape, id))

OrderDefs(s1, s2, s3, awaited, test, noise) ==
    <<Func("a", <<StepTag>>, noise \o <<OrderBody(s1, awaited, "b")>>),
      [kind |-> IF awaited THEN "async_func" ELSE "func", name |-> "b",
       decorators |-> <<StepTag>>,
       body |-> <<If(test, <<OrderBody(s2, awaited, "c")>> \o noise,
                           <<OrderBody(s3, awaited, "d")>>)>>],
      Func("c", <<StepTag>>, noise),
      Func("d", <<StepTag>>, <<>>)>>

OrderDefsSet ==
    {OrderDefs(s1, s2, s3, awaited, test, noise) :
        s1 \in {"self", "name"}, s2 \in {"self", "name"}, s3 \in {"self", "name"},
        awaited \in BOOLEAN,
        test \in {<<>>, <<Call("attr", "get")>>},
        noise \in {<<>>, <<Expr(Call("self", "x"))>>}}

OrderTrees ==
    {<<Class("K", <<FlowTag>>, defs)>> : defs \in OrderDefsSet} \cup OrderDefsSet

\* --- directories ---------------------------------------------------------
DirPaths ==
    <<<<<<"a", ".", "py">>>>,
      <<<<"pkg">>, <<"__init__", ".", "py">>>>,
      <<<<"pkg">>, <<"b", ".", "py">>>>,
      <<<<"pkg", ".", "py">>>>>>

DirTrees ==
    {<<>>,
     <<Func("a", <<StepTag>>, <<Expr(Call("name", "b")), Expr(Call("name", "x"))>>)>>,
     <<Func("b", <<StepTag>>, <<>>)>>,
     <<Func("b", <<Deco("call_name", "step", <<Kw("name", "dynamic", NoneVal)>>)>>,
            <<If(<<>>, <<Expr(Call("name", "a"))>>, <<Expr(Call("name", "c"))>>)>>)>>,
     <<Class("K", <<FlowTag>>,
             <<Func("a", <<StepTag>>, <<Expr(Call("self", "b")), Expr(Call("name", "c"))>>)>>)>>,
     <<Class("H", <<>>, <<Func("c", <<StepTag>>, <<Expr(Call("name", "a"))>>)>>)>>,
     <<Func("b", <<>>, <<Expr(Call("name", "c"))>>),
       Func("c", <<StepTag>>, <<Expr(Call("name", "b"))>>)>>}

DirFiles(parts) ==
    {File(parts, tree) : tree \in DirTrees}
    \cup {Unparseable(parts)}
    \cup {Failing(parts, e) : e \in OtherParseErrors \cup ReadErrors}
    \cup {Linked(parts, <<Func("b", <<StepTag>>, <<>>)>>, OutsideTarget)}
    \cup (IF parts = DirPaths[1]
          THEN {Linked(parts, <<Func("b", <<StepTag>>, <<>>)>>, RootPath \o DirPaths[3])}
          ELSE {})

\* The directories of at most n files whose paths are among the first k of
\* DirPaths, in that order.
RECURSIVE Dirs(_, _)
Dirs(k, n) ==
    IF k = 0 \/ n = 0 THEN {<<>>}
    ELSE Dirs(k - 1, n)
         \cup {Append(d, f) : d \in Dirs(k - 1, n - 1), f \in DirFiles(DirPaths[k])}

SingleTrees ==
    BodyTrees \cup DecoTrees \cup StructTrees \cup NestedTrees \cup RedefinedTrees
    \cup OrderTrees

SingleFiles ==
    {<<File(PathM, tree)>> : tree \in SingleTrees}
    \cup {<<Unparseable(PathM)>>}
    \cup {<<Failing(PathM, e)>> : e \in OtherParseErrors \cup ReadErrors}
    \cup {<<Linked(PathM, tree, target)>> :
             tree \in OrderTrees, target \in {OutsideTarget, OutsideScript}}

\* One file of Python text whose name has no .py suffix.
PathScript == <<<<"script">>>>
ScriptFiles ==
    {<<File(PathScript, tree)>> : tree \in OrderTrees}
    \cup {<<Linked(PathScript, tree, OutsideTarget)>> : tree \in OrderTrees}

\* A file that is a link to another file of the list is that file: the two
\* hold one text.
LinksConsistent(fs) ==
    \A i, j \in DOMAIN fs :
        (fs[i].link # <<>> /\ fs[i].link[1] = RootPath \o fs[j].parts)
            => (fs[j].ok = fs[i].ok /\ fs[j].tree = fs[i].tree /\ fs[j].link = <<>>)

Directories == {fs \in Dirs(Len(DirPaths), MaxFiles) : LinksConsistent(fs)}

-----------------------------------------------------------------------------
(* parse_directory as a function of the list of files.                      *)

\* Lines 499-512: the registry after the first loop over the files.
RECURSIVE DirRegistry(_, _, _)
DirRegistry(reg, fs, is_file) ==
    IF fs = <<>> THEN reg
    ELSE DirRegistry(IF Head(fs).ok
                     THEN RegisterAll(reg, ModulePathOf(Head(fs), is_file),
                                      FileRegistrations(Head(fs).tree))
                     ELSE reg,
                     Tail(fs), is_file)

\* Lines 515-520: the flows of the files that parsed, in order.
DirFlows(fs, is_file) ==
    Concat([i \in DOMAIN SelectSeq(fs, LAMBDA f : f.ok) |->
               ParseTreeWithRegistry(SelectSeq(fs, LAMBDA f : f.ok)[i].tree,
                                     DirRegistry([steps |-> <<>>, module_steps |-> <<>>],
                                                 fs, is_file).steps)])

-----------------------------------------------------------------------------
(* Output paths of the generate command.  Names are sequences of characters. *)

\* The position of the last "." of a name that starts a suffix, or 0: the "." is
\* neither the first nor the last character.
SuffixDot(name) ==
    LET dots == {i \in DOMAIN name : name[i] = "."}
        last == IF dots = {} THEN 0 ELSE CHOOSE i \in dots : \A j \in dots : j <= i
    IN  IF 1 < last /\ last < Len(name) THEN last ELSE 0

\* Path.suffix
Suffix(name) ==
    IF SuffixDot(name) = 0 THEN <<>> ELSE SubSeq(name, SuffixDot(name), Len(name))

\* Path.stem
Stem(name) ==
    IF SuffixDot(name) = 0 THEN name ELSE SubSeq(name, 1, SuffixDot(name) - 1)

\* The characters of the flow names of the inputs.
NameChars(name) ==
    CASE name = "Function Flow" ->
            <<"F", "u", "n", "c", "t", "i", "o", "n", " ", "F", "l", "o", "w">>
      [] name = "K" -> <<"K">>
      [] name = "H" -> <<"H">>
      [] name = "L" -> <<"L">>
      [] name = "N" -> <<"N">>

\* str.lower on the characters in use
Lower(c) ==
    CASE c = "F" -> "f"
      [] c = "H" -> "h"
      [] c = "K" -> "k"
      [] c = "L" -> "l"
      [] c = "N" -> "n"
      [] OTHER -> c

\* \w: letters, digits and "_"
WordChars ==
    {"a", "b", "c", "d", "e", "f", "g", "h", "i", "j", "k", "l", "m", "n", "o", "p", "q",
     "r", "s", "t", "u", "v", "w", "x", "y", "z", "F", "H", "K", "L", "N",
     "0", "1", "2", "3", "4", "5", "6", "7", "8", "9", "_"}

\* [\s-]
SeparatorChars == {" ", "\t", "-"}

\* re.sub(r"[\s-]+", "_", slug): every maximal run of separators becomes one "_".
RECURSIVE CollapseRuns(_)
CollapseRuns(s) ==
    IF s = <<>> THEN <<>>
    ELSE IF Head(s) \in SeparatorChars
         THEN IF Len(s) > 1 /\ s[2] \in SeparatorChars
              THEN CollapseRuns(Tail(s))
              ELSE <<"_">> \o CollapseRuns(Tail(s))
         ELSE <<Head(s)>> \o CollapseRuns(Tail(s))

\* str.strip("_")
RECURSIVE StripUnderscores(_)
StripUnderscores(s) ==
    IF s = <<>> THEN <<>>
    ELSE IF Head(s) = "_" THEN StripUnderscores(Tail(s))
    ELSE IF s[Len(s)] = "_" THEN StripUnderscores(SubSeq(s, 1, Len(s) - 1))
    ELSE s

\* _slugify
Slugify(name) ==
    LET lowered == [i \in DOMAIN name |-> Lower(name[i])]
        kept    == SelectSeq(lowered, LAMBDA c : c \in WordChars \cup SeparatorChars)
    IN  StripUnderscores(CollapseRuns(kept))

\* Path.with_suffix on a path of one component; <<>> stands for the ValueError that
\* a path with an empty name raises.
WithSuffix(name, suffix) ==
    IF name = <<>> THEN <<>> ELSE Stem(name) \o suffix

\* cli.generate, lines 119-124: the output path of one flow.
OutputPath(flow, output) ==
    IF output # <<>> THEN output[1] ELSE Slugify(NameChars(flow.name))

\* MermaidGenerator.generate, line 197: the path the diagram is written to.
MmdPath(output_path) == WithSuffix(output_path, <<".", "m", "m", "d">>)

\* The values of --format, and the characters of those that name a suffix.
OutputFormats == {"mermaid", "dot", "png", "svg", "pdf", "html"}

FormatChars(output_format) ==
    CASE output_format = "dot" -> <<"d", "o", "t">>
      [] output_format = "png" -> <<"p", "n", "g">>
      [] output_format = "svg" -> <<"s", "v", "g">>
      [] output_format = "pdf" -> <<"p", "d", "f">>

\* GraphvizGenerator.generate, lines 103-113: the path the diagram is written
\* to, with_suffix(".dot") for the dot format and the stem followed by the format
\* for a rendered one; <<>> when with_suffix raises.
GraphvizPath(output_format, output_path) ==
    IF output_path = <<>> THEN <<>>
    ELSE IF output_format = "dot" THEN WithSuffix(output_path, <<".", "d", "o", "t">>)
    ELSE WithSuffix(output_path, <<>>) \o <<".">> \o FormatChars(output_format)

\* generator.generate(flow_data, output_path) of the generator that
\* create_generator returns for the format.
GeneratedPath(output_format, output_path) ==
    IF output_format = "mermaid" THEN MmdPath(output_path)
    ELSE GraphvizPath(output_format, output_path)

\* cli.generate, lines 89-105, and create_generator: how the command ends before
\* it parses anything, or NoneVal when it goes on.  "docstrings_unsupported" and
\* "generator_unavailable" are ClickExceptions, "NotImplementedError" is the
\* exception of the html format, which the command does not catch.
RejectionOf(output_format, docstrings, has_graphviz, has_jinja2) ==
    IF docstrings /\ output_format \in {"png", "pdf"} THEN "docstrings_unsupported"
    ELSE IF output_format \in {"png", "svg", "pdf"} /\ ~has_graphviz
         THEN "generator_unavailable"
    ELSE IF output_format = "html"
         THEN IF has_jinja2 THEN "NotImplementedError" ELSE "generator_unavailable"
    ELSE NoneVal

\* The values of --output: absent, or one file name.
OutputOptions == {<<>>, <<<<"o", "u", "t", ".", "s", "v", "g">>>>}

-----------------------------------------------------------------------------
(* The state machine.                                                       *)

NewRegistry == [steps |-> <<>>, module_steps |-> <<>>]

\* A file that does not parse is passed over in silence.
NoParseFailureWarning(file_index) == <<>>

\* parse_directory, line 504: the warning for a file that does not parse.
ParseFailureWarnings(file_index) == <<Warning("cannot_parse", NoneVal, file_index)>>

CliIdle == command = NoneVal /\ exit_code = <<>> /\ echoed = <<>> /\ written = <<>>
RegistryIdle == registered = <<>> /\ resolved = <<>>
PathIdle ==
    /\ arg_root = <<>> /\ arg_src_root = <<>> /\ src_root_path = <<>>
    /\ arg_file_path = <<>> /\ ret_module = <<>>
    /\ cwd = <<>> /\ symlinks = {}
DiscoveryIdle ==
    root_dir = <<>> /\ exclude_patterns = {} /\ walk = <<>> /\ python_files = <<>>

\* parse_file on a file; parse_directory on a file (the root is the file, discovery
\* returns it alone) or on a directory.
Init ==
    /\ \/ mode = "file" /\ files \in SingleFiles \cup ScriptFiles /\ root_is_file = TRUE
       \/ mode = "dir" /\ files \in SingleFiles \cup ScriptFiles /\ root_is_file = TRUE
       \/ mode = "dir" /\ files \in Directories /\ root_is_file = FALSE
    /\ CliIdle /\ RegistryIdle /\ PathIdle /\ DiscoveryIdle
    /\ pc = "start"
    /\ idx = 0
    /\ file_asts = <<>>
    /\ reg_steps = <<>>
    /\ reg_module_steps = <<>>
    /\ flows = <<>>
    /\ warnings = <<>>
    /\ raised = NoneVal

\* discover_python_files, lines 52 and 58, for a root that is a file: the last
\* component of the resolved path has the suffix ".py".
RootIsPythonFile(file) ==
    LET name == FoundPath(file, TRUE)[Len(FoundPath(file, TRUE))]
    IN  Len(name) > 2 /\ EndsWith(name, <<".", "py">>)

\* parse_file(files[1])
ParseFile ==
    /\ mode = "file" /\ pc = "start"
    /\ IF files[1].ok
       THEN /\ flows' = ParseFileFlows(files[1].tree)
            /\ warnings' = TreeFlowWarnings(files[1].tree,
                               Range(DictKeys(CollectAllSteps(files[1].tree))))
            /\ raised' = raised
       ELSE /\ raised' = files[1].error
            /\ UNCHANGED <<flows, warnings>>
    /\ pc' = "done"
    /\ UNCHANGED <<mode, files, root_is_file, idx, file_asts, reg_steps, reg_module_steps>>
    /\ UNCHANGED <<cli_vars, registry_vars, path_vars, discovery_vars>>

\* parse_directory, lines 484-497: the files are discovered, the registry is new.
\* When discovery raises, the run ends in "failed" with nothing parsed.
ParseDirectoryStart ==
    /\ mode = "dir" /\ pc = "start"
    /\ IF root_is_file /\ ~RootIsPythonFile(files[1])
       THEN /\ raised' = "ValueError"
            /\ pc' = "failed"
            /\ UNCHANGED <<idx, reg_steps, reg_module_steps, file_asts>>
       ELSE /\ pc' = "pass1"
            /\ idx' = 1
            /\ reg_steps' = NewRegistry.steps
            /\ reg_module_steps' = NewRegistry.module_steps
            /\ file_asts' = <<>>
            /\ raised' = raised
    /\ UNCHANGED <<mode, files, root_is_file, flows, warnings>>
    /\ UNCHANGED <<cli_vars, registry_vars, path_vars, discovery_vars>>

\* parse_directory, lines 499-512: one turn of the first loop.
Pass1File ==
    /\ pc = "pass1" /\ idx <= Len(files)
    /\ IF files[idx].ok
       THEN LET module_path == ModulePathOf(files[idx], root_is_file)
                reg == RegisterAll([steps |-> reg_steps, module_steps |-> reg_module_steps],
                                   module_path, FileRegistrations(files[idx].tree))
            IN  /\ file_asts' = Append(file_asts, idx)
                /\ reg_steps' = reg.steps
                /\ reg_module_steps' = reg.module_steps
                /\ warnings' = warnings \o FileRegistrationWarnings(files[idx].tree)
                /\ idx' = idx + 1
                /\ UNCHANGED <<pc, raised>>
       ELSE IF files[idx].error = "SyntaxError"
       THEN /\ warnings' = warnings \o ParseFailureWarnings(idx)
            /\ idx' = idx + 1
            /\ UNCHANGED <<file_asts, reg_steps, reg_module_steps, pc, raised>>
       ELSE /\ raised' = files[idx].error
            /\ pc' = "failed"
            /\ UNCHANGED <<file_asts, reg_steps, reg_module_steps, warnings, idx>>
    /\ UNCHANGED <<mode, files, root_is_file, flows>>
    /\ UNCHANGED <<cli_vars, registry_vars, path_vars, discovery_vars>>

\* A first loop that gives way to the second after one file.
Pass1DoneEarly(i, n) == i > 1 \/ i > n

\* parse_directory, lines 499-514: the first loop has gone through all n files.
Pass1Done(i, n) == i > n

\* parse_directory, line 515: the first loop is over, the second begins.
BeginPass2 ==
    /\ pc = "pass1" /\ Pass1Done(idx, Len(files))
    /\ pc' = "pass2"
    /\ idx' = 1
    /\ UNCHANGED <<mode, files, root_is_file, file_asts, reg_steps, reg_module_steps, flows,
                   warnings, raised>>
    /\ UNCHANGED <<cli_vars, registry_vars, path_vars, discovery_vars>>

\* An assembly that writes the file's own steps into the registry's dict.
StepsAssembledInPlace(tree, steps) ==
    RegisterAll([steps |-> steps, module_steps |-> <<>>], <<>>, FileRegistrations(tree)).steps

\* _parse_tree_with_registry, lines 558-565: the registry's dict once one file is
\* assembled.  all_steps() hands out a new list and combined_steps is a new dict,
\* so the registry's own dict is as it was.
StepsAfterAssembly(tree, steps) == steps

\* parse_directory, lines 516-518: one turn of the second loop.
Pass2File ==
    /\ pc = "pass2" /\ idx <= Len(file_asts)
    /\ LET tree == files[file_asts[idx]].tree
       IN  /\ flows' = flows \o ParseTreeWithRegistry(tree, reg_steps)
           /\ warnings' = warnings \o
                  TreeFlowWarnings(tree, Range(DictKeys(CollectAllSteps(tree))))
           /\ reg_steps' = StepsAfterAssembly(tree, reg_steps)
    /\ idx' = idx + 1
    /\ UNCHANGED <<mode, files, root_is_file, pc, file_asts, reg_module_steps, raised>>
    /\ UNCHANGED <<cli_vars, registry_vars, path_vars, discovery_vars>>

\* parse_directory, line 520
ReturnFlows ==
    /\ pc = "pass2" /\ idx > Len(file_asts)
    /\ pc' = "done"
    /\ UNCHANGED <<mode, files, root_is_file, idx, file_asts, reg_steps, reg_module_steps, flows,
                   warnings, raised>>
    /\ UNCHANGED <<cli_vars, registry_vars, path_vars, discovery_vars>>

\* click.Path(exists=True) on the SOURCE argument (cli.py lines 39 and 139): the
\* path exists and os.access grants reading it.  The directories of the runs
\* are readable; a root that is a file is not when reading it raises
\* PermissionError.
SourceReadable == ~(root_is_file /\ files[1].error = "PermissionError")

\* cli.generate and cli.validate, lines 39 and 139: click rejects a SOURCE that
\* is not readable before the body of the command runs, with a usage error and
\* exit status 2; parse_directory is not called.
SourceRejected ==
    /\ mode = "dir" /\ pc = "start"
    /\ ~SourceReadable
    /\ \E c \in {"generate", "validate"} : command' = c
    /\ echoed' = <<"usage_error">>
    /\ exit_code' = <<2>>
    /\ written' = written
    /\ pc' = "rejected"
    /\ UNCHANGED <<mode, files, root_is_file, idx, file_asts, reg_steps, reg_module_steps,
                   flows, warnings, raised>>
    /\ UNCHANGED <<registry_vars, path_vars, discovery_vars>>

\* cli.generate, lines 89-105: the command ends before it parses anything, on
\* --docstrings with png or pdf output, or when create_generator raises.
GenerateRejected ==
    /\ mode = "dir" /\ pc = "start"
    /\ SourceReadable
    /\ command' = "generate"
    /\ \E output_format \in OutputFormats, docstrings \in BOOLEAN,
          has_graphviz \in BOOLEAN, has_jinja2 \in BOOLEAN :
          LET why == RejectionOf(output_format, docstrings, has_graphviz, has_jinja2)
          IN  /\ why # NoneVal
              /\ IF why = "NotImplementedError"
                 THEN /\ echoed' = <<>>
                      /\ exit_code' = exit_code
                      /\ raised' = why
                      /\ pc' = "aborted"
                 ELSE /\ echoed' = <<why>>
                      /\ exit_code' = <<1>>
                      /\ raised' = raised
                      /\ pc' = "rejected"
    /\ written' = written
    /\ UNCHANGED <<mode, files, root_is_file, idx, file_asts, reg_steps, reg_module_steps,
                   flows, warnings>>
    /\ UNCHANGED <<registry_vars, path_vars, discovery_vars>>

\* cli.generate, lines 115-135, after parse_directory returned, with the generator
\* of a format that create_generator accepts.  output is the value of --output;
\* ok is the set of flows that the generator renders without an exception, which
\* a path with an empty name always raises.
Generate ==
    /\ mode = "dir" /\ pc = "done" /\ raised = NoneVal
    /\ SourceReadable
    /\ command' = "generate"
    /\ IF flows = <<>>
       THEN /\ echoed' = <<"no_flows_found">>
            /\ exit_code' = <<1>>
            /\ written' = <<>>
       ELSE \E output \in OutputOptions :
            \E output_format \in {f \in OutputFormats :
                                     \E d \in BOOLEAN, g \in BOOLEAN, j \in BOOLEAN :
                                        RejectionOf(f, d, g, j) = NoneVal} :
            \E ok \in SUBSET {i \in DOMAIN flows :
                                 GeneratedPath(output_format,
                                               OutputPath(flows[i], output)) # <<>>} :
               /\ echoed' = [i \in DOMAIN flows |->
                                IF i \in ok THEN "generated" ELSE "error_generating"]
                             \o (IF ok = {} THEN <<"no_flows_found">> ELSE <<>>)
               /\ exit_code' = IF ok = {} THEN <<1>> ELSE <<0>>
               /\ written' = LET paths == [i \in DOMAIN flows |->
                                              GeneratedPath(output_format,
                                                            OutputPath(flows[i], output))]
                                  wrote == SelectSeq([i \in DOMAIN flows |-> i],
                                                     LAMBDA i : i \in ok)
                              IN  [k \in DOMAIN wrote |-> paths[wrote[k]]]
    /\ pc' = "exited"
    /\ UNCHANGED <<mode, files, root_is_file, idx, file_asts, reg_steps, reg_module_steps,
                   flows, warnings, raised>>
    /\ UNCHANGED <<registry_vars, path_vars, discovery_vars>>

\* cli.validate, lines 173-194, after parse_directory returned.  The validator's
\* findings and the --strict flag are free.
Validate ==
    /\ mode = "dir" /\ pc = "done" /\ raised = NoneVal
    /\ SourceReadable
    /\ command' = "validate"
    /\ IF flows = <<>>
       THEN /\ echoed' = <<"no_flows_found">>
            /\ exit_code' = <<1>>
       ELSE \E has_errors \in BOOLEAN, has_warnings \in BOOLEAN, strict \in BOOLEAN :
               /\ echoed' = IF ~has_errors /\ ~has_warnings
                             THEN <<"validated">> ELSE <<"messages">>
               /\ exit_code' = IF has_errors \/ (strict /\ has_warnings)
                                THEN <<1>> ELSE <<0>>
    /\ written' = written
    /\ pc' = "exited"
    /\ UNCHANGED <<mode, files, root_is_file, idx, file_asts, reg_steps, reg_module_steps,
                   flows, warnings, raised>>
    /\ UNCHANGED <<registry_vars, path_vars, discovery_vars>>

\* cli.generate line 108-113 and cli.validate: parse_directory raised, the
\* exception leaves the command: the command echoes nothing and sets no exit
\* status itself.  The command calls parse_directory on a readable SOURCE only.
CommandAborted ==
    /\ mode = "dir" /\ pc = "failed"
    /\ SourceReadable
    /\ \E c \in {"generate", "validate"} : command' = c
    /\ echoed' = <<>>
    /\ exit_code' = exit_code
    /\ written' = written
    /\ pc' = "aborted"
    /\ UNCHANGED <<mode, files, root_is_file, idx, file_asts, reg_steps, reg_module_steps,
                   flows, warnings, raised>>
    /\ UNCHANGED <<registry_vars, path_vars, discovery_vars>>

Next ==
    \/ ParseFile
    \/ ParseDirectoryStart
    \/ Pass1File
    \/ BeginPass2
    \/ Pass2File
    \/ ReturnFlows
    \/ SourceRejected
    \/ GenerateRejected
    \/ Generate
    \/ Validate
    \/ CommandAborted

Spec == Init /\ [][Next]_vars

-----------------------------------------------------------------------------
(* Properties.                                                              *)

Done == pc = "done"

\* The run was over one file that parses.
OneParsedFile == Len(files) = 1 /\ files[1].ok

AllEdges == Concat([i \in DOMAIN flows |-> flows[i].edges])

AllStepCalls ==
    Concat([i \in DOMAIN flows |->
               Concat([j \in DOMAIN flows[i].steps |-> flows[i].steps[j].calls])])

\* The step names of a tree: the names of its tagged function definitions.
LocalStepNames(tree) == Range(DictKeys(CollectAllSteps(tree)))

\* --- C1 ------------------------------------------------------------------
OrderEdges ==
    <<Edge("a", "b", NoneVal), Edge("b", "c", "if"), Edge("b", "d", "else")>>

IsOrderInput == OneParsedFile /\ files[1].tree \in OrderTrees

\* C1: for a flow container (and likewise for top-level steps) whose step a
\* calls step b outside any conditional and whose step b calls step c in the
\* body of an if and step d in its else arm, with the steps defined in the
\* order a, b, c, d, extraction by either entry point yields one Flow whose
\* edges are exactly (a->b, no branch), (b->c, "if"), (b->d, "else"), in that
\* order, whatever the call shapes (self.f() or f()), awaited or not, and
\* whatever unresolved calls stand between them.
C1_OrderProcessingEdges ==
    (Done /\ IsOrderInput) =>
        /\ Len(flows) = 1
        /\ flows[1].edges = OrderEdges
        /\ [i \in DOMAIN flows[1].steps |-> flows[1].steps[i].function_name]
               = <<"a", "b", "c", "d">>

C1_Witness ==
    /\ Done /\ IsOrderInput
    /\ flows[1].type = "class"
    /\ flows[1].edges = OrderEdges

\* --- C3 ------------------------------------------------------------------
\* The step identifiers known when calls are resolved: the file's own steps
\* in parse_file, the steps of every parsed file in parse_directory.
KnownAtResolution ==
    UNION {LocalStepNames(files[i].tree) : i \in {j \in DOMAIN files : files[j].ok}}

\* Some step body of the input calls, in an accepted shape, a name that is
\* not known.
RECURSIVE StmtsCallUnknown(_, _)
StmtsCallUnknown(ss, known) ==
    \E i \in DOMAIN ss :
        \/ /\ ss[i].kind = "expr"
           /\ TargetName(ss[i].call) # NoneVal
           /\ TargetName(ss[i].call) \notin known
        \/ StmtsCallUnknown(ss[i].body, known)
        \/ StmtsCallUnknown(ss[i].orelse, known)

NoDynamicKeyword(node) ==
    \A i \in DOMAIN node.decorators :
        \A k \in DOMAIN node.decorators[i].keywords :
            node.decorators[i].keywords[k].vkind # "dynamic"

RECURSIVE TreeHasNoDynamicKeyword(_)
TreeHasNoDynamicKeyword(tree) ==
    \A i \in DOMAIN tree :
        /\ NoDynamicKeyword(tree[i])
        /\ IsClassDef(tree[i]) => TreeHasNoDynamicKeyword(tree[i].body)

\* C3: the target of every edge of every returned Flow, and of every call
\* recorded on a step, is a step identifier known at resolution time; a call
\* to any other name adds no edge, and by itself neither raises nor warns: a
\* run over files that all parse and hold no non-literal tag argument ends
\* with no exception and no warning at all.
C3_EdgesOnlyToKnownSteps ==
    Done =>
        /\ \A i \in DOMAIN AllEdges : AllEdges[i].to_step \in KnownAtResolution
        /\ \A i \in DOMAIN AllStepCalls : AllStepCalls[i].to_step \in KnownAtResolution
        /\ (\A i \in DOMAIN files : files[i].ok /\ TreeHasNoDynamicKeyword(files[i].tree))
               => (raised = NoneVal /\ warnings = <<>>)

C3_Witness ==
    /\ Done /\ mode = "dir" /\ Len(files) = 2
    /\ files[1].ok /\ files[2].ok
    /\ TreeHasNoDynamicKeyword(files[1].tree) /\ TreeHasNoDynamicKeyword(files[2].tree)
    /\ files[1].tree # <<>> /\ IsFunctionDef(files[1].tree[1])
    /\ StmtsCallUnknown(files[1].tree[1].body, KnownAtResolution)
    /\ Len(AllEdges) = 1
    /\ warnings = <<>> /\ raised = NoneVal

\* --- C2 ------------------------------------------------------------------
\* The identifiers a call of the inputs can name.
Identifiers == {"a", "b", "c", "d", "x", "get"} \cup DecoIds

\* The names n for which the claim promises an edge in the file with the given
\* tree and path: n is a step of the file, or resolve(module, n) finds a step.
ResolvableNames(tree, parts) ==
    {n \in Identifiers :
        \/ n \in LocalStepNames(tree)
        \/ Resolve(reg_steps, PathToModule(parts), <<n>>) # <<>>}

\* C2: pass 2 of parse_directory returns, for each parsed file in turn, the
\* Flows obtained by recording an edge for exactly the detected calls (accepted
\* shape, reached by the traversal) whose name n is a step of the same file or
\* is resolved by StepRegistry.resolve(module path of the file, n); in
\* particular a call to a step defined only in another file gives an edge and
\* a call to a name that is a step nowhere gives none.
C2_EdgeIffLocalOrResolved ==
    (Done /\ mode = "dir") =>
        /\ flows = Concat([i \in DOMAIN file_asts |->
                       TreeFlows(files[file_asts[i]].tree,
                                 LocalStepNames(files[file_asts[i]].tree),
                                 ResolvableNames(files[file_asts[i]].tree,
                                                 files[file_asts[i]].parts))])
        /\ \A i \in DOMAIN AllEdges :
               \E j \in DOMAIN files :
                   /\ files[j].ok
                   /\ AllEdges[i].to_step \in LocalStepNames(files[j].tree)
        /\ ( /\ Len(files) = 2 /\ files[2].ok
             /\ files[1] = File(DirPaths[1],
                    <<Func("a", <<StepTag>>,
                           <<Expr(Call("name", "b")), Expr(Call("name", "x"))>>)>>)
             /\ "b" \in LocalStepNames(files[2].tree) )
               => flows[1].edges = <<Edge("a", "b", NoneVal)>>

\* A call in a.py to b, a step of pkg/b.py alone, gave an edge; the call to x,
\* a step nowhere, gave none.
C2_Witness ==
    /\ Done /\ mode = "dir" /\ Len(files) = 2
    /\ files[1] = File(DirPaths[1],
           <<Func("a", <<StepTag>>,
                  <<Expr(Call("name", "b")), Expr(Call("name", "x"))>>)>>)
    /\ files[2] = File(DirPaths[3], <<Func("b", <<StepTag>>, <<>>)>>)
    /\ flows[1].edges = <<Edge("a", "b", NoneVal)>>
    /\ Resolve(reg_steps, <<"a">>, <<"b">>) # <<>>
    /\ ~DictHas(reg_steps, <<"a", ".", "b">>)

\* --- C4 ------------------------------------------------------------------
\* The module holds functions alone, no two of the same name, each under at
\* most one decorator: whether a function is a step rests on its own tag.
PlainFunctions(tree) ==
    /\ \A i \in DOMAIN tree : IsFunctionDef(tree[i]) /\ Len(tree[i].decorators) <= 1
    /\ \A i, j \in DOMAIN tree : tree[i].name = tree[j].name => i = j

CollectedNames ==
    UNION {{flows[i].steps[j].function_name : j \in DOMAIN flows[i].steps} :
              i \in DOMAIN flows}

\* The spellings the parser accepts: @name, @name(...) and @q.name(...).
AcceptedSpelling(d) ==
    /\ d.id \in {"step", "business_step", "flow_step"}
    /\ d.shape \in {"name", "call_name", "call_attr"}

\* The spellings of the claim: bare or call form, qualified or not.
ClaimedSpelling(d) ==
    /\ d.id \in {"step", "business_step", "flow_step"}
    /\ d.shape \in {"name", "attr", "call_name", "call_attr"}

\* C4 (as stated): a function is collected as a step exactly when its decorator
\* is a recognised step name in any of the four spellings bare/call form x
\* unqualified/qualified.
C4_AllFourSpellings ==
    (Done /\ OneParsedFile /\ PlainFunctions(files[1].tree)) =>
        \A i \in DOMAIN files[1].tree :
            Len(files[1].tree[i].decorators) = 1 =>
                (files[1].tree[i].name \in CollectedNames
                    <=> ClaimedSpelling(files[1].tree[i].decorators[1]))

\* C4 (amended): a function is collected as a step exactly when its decorator
\* is a recognised step name (step, business_step, flow_step) spelled as a
\* bare name, as a call of a bare name or as a call of a qualified name; a
\* bare qualified reference (@flowdoc.step) and every decorator of another
\* final name are not step tags.
C4_AcceptedSpellings ==
    (Done /\ OneParsedFile /\ PlainFunctions(files[1].tree)) =>
        \A i \in DOMAIN files[1].tree :
            Len(files[1].tree[i].decorators) = 1 =>
                /\ files[1].tree[i].name \in CollectedNames
                       <=> AcceptedSpelling(files[1].tree[i].decorators[1])
                /\ IsStepDecorator(files[1].tree[i].decorators[1])
                       <=> AcceptedSpelling(files[1].tree[i].decorators[1])

C4_Witness ==
    /\ Done /\ OneParsedFile /\ PlainFunctions(files[1].tree)
    /\ Len(files[1].tree) = 2
    /\ files[1].tree[1].decorators = <<Deco("call_attr", "flow_step", <<>>)>>
    /\ files[1].tree[1].name \in CollectedNames

\* --- C8 ------------------------------------------------------------------
\* The same source with every await removed and every async def made a def.
RECURSIVE SyncCall(_)
SyncCall(c) ==
    [c EXCEPT !.awaited = FALSE, !.args = [i \in DOMAIN c.args |-> SyncCall(c.args[i])]]

RECURSIVE SyncStmts(_)
SyncStmts(ss) ==
    [i \in DOMAIN ss |->
        [ss[i] EXCEPT !.call = SyncCall(@),
                      !.test = [k \in DOMAIN @ |-> SyncCall(@[k])],
                      !.body = SyncStmts(@),
                      !.orelse = SyncStmts(@)]]

SyncKeywords(kws) ==
    [i \in DOMAIN kws |->
        [kws[i] EXCEPT !.calls = [k \in DOMAIN @ |-> SyncCall(@[k])]]]

SyncFunc(node) ==
    [node EXCEPT !.kind = "func",
                 !.body = SyncStmts(@),
                 !.decorators = [i \in DOMAIN @ |->
                                    [@[i] EXCEPT !.keywords = SyncKeywords(@)]]]

RECURSIVE SyncTree(_)
SyncTree(tree) ==
    [i \in DOMAIN tree |->
        IF IsClassDef(tree[i])
        THEN [tree[i] EXCEPT !.body = SyncTree(@)]
        ELSE SyncFunc(tree[i])]

SyncFiles(fs) == [i \in DOMAIN fs |-> [fs[i] EXCEPT !.tree = SyncTree(@)]]

RECURSIVE StmtsAwait(_)
StmtsAwait(ss) ==
    \E i \in DOMAIN ss :
        \/ ss[i].kind = "expr" /\ ss[i].call.awaited
        \/ StmtsAwait(ss[i].body)
        \/ StmtsAwait(ss[i].orelse)

\* C8: the Flows of a run (steps with their recorded calls, and edges with
\* source, target, branch and order) are those of the run over the same
\* source with each await removed and each async def turned into a def.
C8_AwaitTransparent ==
    (Done /\ raised = NoneVal) =>
        flows = IF mode = "file" THEN ParseFileFlows(SyncTree(files[1].tree))
                ELSE DirFlows(SyncFiles(files), root_is_file)

\* An async step whose awaited call, under the else arm, gave an edge.
C8_Witness ==
    /\ Done /\ IsOrderInput /\ mode = "dir"
    /\ files[1].tree[1].kind = "class"
    /\ files[1].tree[1].body[2].kind = "async_func"
    /\ StmtsAwait(files[1].tree[1].body[2].body)
    /\ flows[1].edges = OrderEdges
    /\ files[1].tree # SyncTree(files[1].tree)

\* --- C5, C6, C7 ----------------------------------------------------------
RECURSIVE IsSubseq(_, _)
IsSubseq(s, t) ==
    IF s = <<>> THEN TRUE
    ELSE IF t = <<>> THEN FALSE
    ELSE IF Head(s) = Head(t) THEN IsSubseq(Tail(s), Tail(t))
    ELSE IsSubseq(s, Tail(t))

Distinct(s) == \A i, j \in DOMAIN s : s[i] = s[j] => i = j

Names(nodes) == [i \in DOMAIN nodes |-> nodes[i].name]

StepNames(flow) == [i \in DOMAIN flow.steps |-> flow.steps[i].function_name]

\* The steps of a flow as extracted from their definitions, calls aside.
StepHeads(flow) == [i \in DOMAIN flow.steps |-> [flow.steps[i] EXCEPT !.calls = <<>>]]

Heads(nodes) == [i \in DOMAIN nodes |-> ExtractStepMetadata(nodes[i])]

TaggedFunction(node) == IsFunctionDef(node) /\ HasStepDecorator(node)

ClassFlows == SelectSeq(flows, LAMBDA f : f.type = "class")
FunctionFlows == SelectSeq(flows, LAMBDA f : f.type = "function")

\* C5: untagged functions are never collected: the steps of the implicit Flow
\* are, in order, among the module's own functions that carry a step tag, and
\* every step of a container's Flow is a tagged method of a container.
C5_OnlyTaggedCollected ==
    (Done /\ OneParsedFile) =>
        /\ \A i \in DOMAIN FunctionFlows :
               IsSubseq(StepNames(FunctionFlows[i]),
                        Names(SelectSeq(files[1].tree, TaggedFunction)))
        /\ \A i \in DOMAIN ClassFlows :
               \A j \in DOMAIN ClassFlows[i].steps :
                   \E k \in DOMAIN files[1].tree :
                       /\ IsClassDef(files[1].tree[k])
                       /\ \E m \in DOMAIN files[1].tree[k].body :
                              /\ TaggedFunction(files[1].tree[k].body[m])
                              /\ files[1].tree[k].body[m].name
                                     = ClassFlows[i].steps[j].function_name

\* C6 (as stated): the steps of each container's Flow, and of the implicit
\* Flow, follow the order of their definitions in the source: they are a
\* subsequence of the scope's definitions, whatever the calls between them.
C6_StepsInSourceOrder ==
    (Done /\ OneParsedFile) =>
        /\ Len(ClassFlows) = Len(FlowClasses(files[1].tree))
        /\ \A i \in DOMAIN ClassFlows :
               IsSubseq(StepHeads(ClassFlows[i]),
                        Heads(SelectSeq(FlowClasses(files[1].tree)[i].body, IsFunctionDef)))
        /\ \A i \in DOMAIN FunctionFlows :
               IsSubseq(StepHeads(FunctionFlows[i]),
                        Heads(SelectSeq(files[1].tree, IsFunctionDef)))

\* C6 (amended): the steps of a container's Flow are its tagged methods in the
\* order of their definitions, whatever the calls between them, provided no
\* two tagged methods of the container share an identifier (a repeated
\* identifier is listed once, where it was first defined, as its last
\* definition describes it); the steps of the implicit Flow always follow the
\* order of the module's definitions.
C6_StepsInSourceOrderIfDistinct ==
    (Done /\ OneParsedFile) =>
        /\ Len(ClassFlows) = Len(FlowClasses(files[1].tree))
        /\ \A i \in DOMAIN ClassFlows :
               LET tagged == SelectSeq(FlowClasses(files[1].tree)[i].body, TaggedFunction)
               IN  /\ Distinct(Names(tagged)) => StepHeads(ClassFlows[i]) = Heads(tagged)
                   /\ StepNames(ClassFlows[i])
                          = DictKeys(DictFrom(<<>>, [j \in DOMAIN tagged |->
                                [k |-> tagged[j].name, v |-> tagged[j]]]))
        /\ \A i \in DOMAIN FunctionFlows :
               IsSubseq(StepHeads(FunctionFlows[i]),
                        Heads(SelectSeq(files[1].tree, IsFunctionDef)))

\* A container whose step b is defined before the step a that it calls.
C6_Witness ==
    /\ Done /\ OneParsedFile
    /\ Len(ClassFlows) = 1
    /\ StepNames(ClassFlows[1]) = <<"b", "a">>
    /\ Edge("b", "a", NoneVal) \in Range(ClassFlows[1].edges)
    /\ Edge("a", "b", NoneVal) \in Range(ClassFlows[1].edges)

\* C7: a file with step-tagged top-level functions and no flow container gives
\* exactly one Flow, of the implicit kind, whose steps are exactly those
\* functions, each once.
C7_OneImplicitFlow ==
    (/\ Done /\ OneParsedFile
     /\ FlowClasses(files[1].tree) = <<>>
     /\ SelectSeq(files[1].tree, TaggedFunction) # <<>>) =>
        /\ Len(flows) = 1
        /\ flows[1].type = "function"
        /\ StepNames(flows[1]) = Names(SelectSeq(files[1].tree, TaggedFunction))

\* --- C9, C10 -------------------------------------------------------------
AllParsedPlain ==
    \A i \in DOMAIN files : files[i].ok /\ PlainFunctions(files[i].tree)

\* The named keyword arguments of the step tags of the input that satisfy P,
\* as <<file, definition, keyword>> positions.
TagArguments(P(_)) ==
    {pos \in (DOMAIN files) \X (1..(MaxDefs + 2)) \X (1..2) :
        /\ pos[2] \in DOMAIN files[pos[1]].tree
        /\ Len(files[pos[1]].tree[pos[2]].decorators) = 1
        /\ IsStepDecorator(files[pos[1]].tree[pos[2]].decorators[1])
        /\ IsCall(files[pos[1]].tree[pos[2]].decorators[1])
        /\ pos[3] \in DOMAIN files[pos[1]].tree[pos[2]].decorators[1].keywords
        /\ files[pos[1]].tree[pos[2]].decorators[1].keywords[pos[3]].arg # NoneVal
        /\ P(files[pos[1]].tree[pos[2]].decorators[1].keywords[pos[3]])}

ArgumentAt(pos) == files[pos[1]].tree[pos[2]].decorators[1].keywords[pos[3]]

NotLiteral(kw) == kw.vkind = "dynamic"
NotLiteralString(kw) == kw.vkind # "str"

\* The step extracted from the definition at pos, in a run over one file of
\* plain functions: the implicit Flow lists them in order.
StepAt(pos) == flows[1].steps[pos[2]]

FieldIsDefault(pos) ==
    /\ ArgumentAt(pos).arg = "name" => StepAt(pos).name = StepAt(pos).function_name
    /\ ArgumentAt(pos).arg = "description" => StepAt(pos).description = ""

\* C9: when a step tag has a keyword argument whose value is not a literal,
\* the run (parse_file, or parse_directory with its two passes) raises
\* nothing, the field takes its default, and exactly one warning is emitted
\* for that argument over the whole run.
C9_OneWarningPerArgument ==
    (Done /\ AllParsedPlain) =>
        /\ raised = NoneVal
        /\ Len(SelectSeq(warnings, LAMBDA w : w.kind = "dynamic_arg"))
               = Cardinality(TagArguments(NotLiteral))
        /\ \A kwname \in {"name", "description", "label"} :
               Len(SelectSeq(warnings, LAMBDA w : w.kind = "dynamic_arg" /\ w.arg = kwname))
                   = Cardinality({pos \in TagArguments(NotLiteral) :
                                     ArgumentAt(pos).arg = kwname})

\* C10: every named keyword argument of a step tag whose value is not a
\* literal string (a number, None or bytes included) is not honoured, its
\* field falls back to the default, and a warning naming it is emitted.
C10_WarningForEveryNonString ==
    (Done /\ mode = "file" /\ OneParsedFile /\ PlainFunctions(files[1].tree)
          /\ \A i \in DOMAIN files[1].tree : HasStepDecorator(files[1].tree[i])) =>
        \A pos \in TagArguments(NotLiteralString) :
            /\ FieldIsDefault(pos)
            /\ \E i \in DOMAIN warnings :
                   warnings[i].kind = "dynamic_arg" /\ warnings[i].arg = ArgumentAt(pos).arg

-----------------------------------------------------------------------------
(* StepRegistry on its own: any sequence of register calls, and resolve      *)
(* calls on the registry they leave.                                        *)

MaxRegisters == 3   \* register calls in a generated sequence

RegModules == {<<"m">>, <<"n">>, <<"m", ".", "f">>}
RegSteps ==
    {StepData(name, fn, "", <<>>) : name \in {"N", "P"}, fn \in {"f", "g"}}
RegCallNames ==
    {<<"f">>, <<"g">>, <<"x">>, <<"m", ".", "f">>, <<"n", ".", "g">>, <<"f", ".", "g">>}

RegistryInit ==
    /\ mode = "registry" /\ pc = "start"
    /\ files = <<>> /\ root_is_file = FALSE /\ idx = 0 /\ file_asts = <<>>
    /\ reg_steps = NewRegistry.steps
    /\ reg_module_steps = NewRegistry.module_steps
    /\ flows = <<>> /\ warnings = <<>> /\ raised = NoneVal
    /\ CliIdle /\ RegistryIdle /\ PathIdle /\ DiscoveryIdle

DoRegister ==
    /\ mode = "registry" /\ resolved = <<>>
    /\ Len(registered) < MaxRegisters
    /\ \E module_path \in RegModules, step \in RegSteps :
          LET reg == Register([steps |-> reg_steps, module_steps |-> reg_module_steps],
                              module_path, step)
          IN  /\ reg_steps' = reg.steps
              /\ reg_module_steps' = reg.module_steps
              /\ registered' = Append(registered,
                                      [module_path |-> module_path, step |-> step])
    /\ UNCHANGED <<mode, files, root_is_file, pc, idx, file_asts, flows, warnings, raised>>
    /\ UNCHANGED <<resolved, cli_vars, path_vars, discovery_vars>>

DoResolve ==
    /\ mode = "registry" /\ resolved = <<>>
    /\ \E from_module \in RegModules, call_name \in RegCallNames :
          resolved' = <<[from_module |-> from_module, call_name |-> call_name,
                         result |-> Resolve(reg_steps, from_module, call_name)]>>
    /\ UNCHANGED <<parser_vars, registered, cli_vars, path_vars, discovery_vars>>

RegistryNext == DoRegister \/ DoResolve

RegistrySpec == RegistryInit /\ [][RegistryNext]_vars

\* --- C11, C12, C13 --------------------------------------------------------
RegKeys == {reg_steps[i].k : i \in DOMAIN reg_steps}

\* The positions of the keys that end with "." + call_name.
SuffixMatches(call_name) ==
    {i \in DOMAIN reg_steps : EndsWith(reg_steps[i].k, <<".">> \o call_name)}

\* The part of a key after its last ".".
TrailingSegment(key) ==
    LET dots == {i \in DOMAIN key : key[i] = "."}
    IN  IF dots = {} THEN key
        ELSE SubSeq(key, (CHOOSE i \in dots : \A j \in dots : j <= i) + 1, Len(key))

\* The registry that a sequence of register calls builds from an empty one.
RECURSIVE Replay(_, _)
Replay(reg, calls) ==
    IF calls = <<>> THEN reg
    ELSE Replay(Register(reg, Head(calls).module_path, Head(calls).step), Tail(calls))

\* The key of a register call.
CallKey(call) == Qualified(call.module_path, <<call.step.function_name>>)

\* C11: resolve(from_module, call_name) applies its rules in priority order.  If
\* call_name is a registered key its entry is returned; otherwise, if
\* from_module + "." + call_name is a registered key its entry is returned, whatever
\* other keys end with the same name; only otherwise the result is the entry of a
\* key ending with "." + call_name; the result is None if and only if none of the
\* three rules matches; and the registry after the call is the one the register
\* calls built.
C11_ResolvePriority ==
    resolved # <<>> =>
        LET r == resolved[1]
            c == r.call_name
            q == Qualified(r.from_module, r.call_name)
        IN  /\ c \in RegKeys => r.result = <<DictGet(reg_steps, c)>>
            /\ (c \notin RegKeys /\ q \in RegKeys) => r.result = <<DictGet(reg_steps, q)>>
            /\ (c \notin RegKeys /\ q \notin RegKeys) =>
                  \/ SuffixMatches(c) = {} /\ r.result = <<>>
                  \/ \E i \in SuffixMatches(c) : r.result = <<reg_steps[i].v>>
            /\ r.result = <<>> <=>
                  (c \notin RegKeys /\ q \notin RegKeys /\ SuffixMatches(c) = {})
            /\ [steps |-> reg_steps, module_steps |-> reg_module_steps]
                  = Replay(NewRegistry, registered)

\* The second rule decided against an earlier key of another module that ends with
\* the same name and holds a different entry.
C11_Witness ==
    /\ resolved # <<>>
    /\ LET r == resolved[1]
           q == Qualified(r.from_module, r.call_name)
       IN  /\ r.call_name \notin RegKeys
           /\ \E i \in DOMAIN reg_steps, j \in SuffixMatches(r.call_name) :
                 /\ reg_steps[i].k = q /\ j < i
                 /\ reg_steps[j].v # reg_steps[i].v
                 /\ r.result = <<reg_steps[i].v>>

\* C12: when rules 1 and 2 fail, resolve returns the entry of the first key, in
\* registration order, whose trailing segment after the last "." equals call_name,
\* for every call_name, one that holds a "." included, and None when no key has
\* that trailing segment.
C12_FirstTrailingSegment ==
    resolved # <<>> =>
        LET r == resolved[1]
            c == r.call_name
            q == Qualified(r.from_module, r.call_name)
            hits == {i \in DOMAIN reg_steps : TrailingSegment(reg_steps[i].k) = c}
        IN  (c \notin RegKeys /\ q \notin RegKeys) =>
                r.result = IF hits = {} THEN <<>>
                           ELSE <<reg_steps[CHOOSE i \in hits : \A j \in hits : i <= j].v>>

\* C13: after any sequence of register calls the entry under a key is the step of
\* the last register call with that key, all_steps() has one entry for each distinct
\* key and no other, and the index of a module lists the qualified names of the
\* register calls made for that module, in the order of the calls.
C13_LastWriteWins ==
    LET calls == registered
        keys == {CallKey(calls[i]) : i \in DOMAIN calls}
        last(k) == CHOOSE i \in DOMAIN calls :
                       /\ CallKey(calls[i]) = k
                       /\ \A j \in DOMAIN calls : CallKey(calls[j]) = k => j <= i
        modules == {calls[i].module_path : i \in DOMAIN calls}
        of(m) == SelectSeq(calls, LAMBDA call : call.module_path = m)
    IN  /\ RegKeys = keys
        /\ \A k \in keys : DictGet(reg_steps, k) = calls[last(k)].step
        /\ Len(AllSteps(reg_steps)) = Cardinality(keys)
        /\ \A k \in keys : \E i \in DOMAIN reg_steps :
              reg_steps[i].k = k /\ AllSteps(reg_steps)[i] = calls[last(k)].step
        /\ Range(DictKeys(reg_module_steps)) = modules
        /\ Len(reg_module_steps) = Cardinality(modules)
        /\ \A m \in modules :
              DictGet(reg_module_steps, m) = [i \in DOMAIN of(m) |-> CallKey(of(m)[i])]

\* A key was registered twice with different steps, between registrations of
\* another module.
C13_Witness ==
    /\ Len(registered) = MaxRegisters
    /\ \E i, j \in DOMAIN registered :
          /\ i < j
          /\ CallKey(registered[i]) = CallKey(registered[j])
          /\ registered[i].step # registered[j].step
    /\ Len(reg_module_steps) >= 2

\* --- C14, C15, C16 --------------------------------------------------------
\* parse_directory returned (the command that called it may have exited since).
Returned == mode = "dir" /\ pc \in {"done", "exited"}

ParsedFiles == SelectSeq(files, LAMBDA f : f.ok)

\* The "cannot parse" warnings of the run that name file i.
ParseWarningsFor(i) ==
    SelectSeq(warnings, LAMBDA w : w.kind = "cannot_parse" /\ w.file = i)

\* The run of parse_directory is over: it returned (the command that called it
\* may have exited since) or it raised.  A command that ended without calling
\* parse_directory made no run.
DirectoryRunOver == mode = "dir" /\ pc \in {"done", "exited", "failed"}

\* Every file of the input can be read, and discovery accepted the root: a file
\* that gives no tree is one whose text ast.parse does not parse.
OnlyParseFailures ==
    /\ \A i \in DOMAIN files :
          files[i].error \in {NoneVal, "SyntaxError"} \cup OtherParseErrors
    /\ raised # "ValueError"

\* The result of a run in which the files that do not parse are skipped.
UnparseableSkipped ==
    /\ raised = NoneVal
    /\ flows = DirFlows(ParsedFiles, root_is_file)
    /\ [steps |-> reg_steps, module_steps |-> reg_module_steps]
          = DirRegistry(NewRegistry, ParsedFiles, root_is_file)
    /\ \A i \in DOMAIN files :
          Len(ParseWarningsFor(i)) = IF files[i].ok THEN 0 ELSE 1

\* C14: in a run of parse_directory a file whose text does not parse is skipped
\* with one warning and the run goes on: nothing is raised, the registry and the
\* Flows returned are those of the run over the input without the unparseable
\* files, and each unparseable file has exactly one "cannot parse" warning.
C14_UnparseableSkipped ==
    (DirectoryRunOver /\ OnlyParseFailures) => UnparseableSkipped

\* The same for runs whose unparseable files are all rejected with SyntaxError.
SkippedOnSyntaxError ==
    (DirectoryRunOver /\ raised # "ValueError"
       /\ \A i \in DOMAIN files : files[i].error \in {NoneVal, "SyntaxError"})
        => UnparseableSkipped

\* A directory whose first file does not parse and whose second file has a Flow.
C14_Witness ==
    /\ Done /\ mode = "dir" /\ ~root_is_file
    /\ Len(files) = 2 /\ ~files[1].ok /\ files[2].ok
    /\ flows # <<>> /\ reg_steps # <<>>
    /\ Len(warnings) >= 1

\* C15: a parse failure is fatal when one explicitly given file is analysed: for
\* parse_file, and for parse_directory and the commands called on a file path, a
\* file that does not parse makes the operation raise a parse error, instead of
\* skipping the file and returning a result.
C15_ParseFailureFatal ==
    (pc \in {"done", "exited"} /\ root_is_file /\ files[1].error = "SyntaxError") =>
        raised = "SyntaxError"

\* A module body holds no flow container and no top-level step.
NoFlowNoStep(module_body) ==
    \A i \in DOMAIN module_body :
        /\ IsClassDef(module_body[i]) => ~HasFlowDecorator(module_body[i])
        /\ IsFunctionDef(module_body[i]) => ~HasStepDecorator(module_body[i])

NoFlowInput == \A i \in DOMAIN files : files[i].ok => NoFlowNoStep(files[i].tree)

\* C16: if the input holds no flow container and no top-level step (an empty
\* directory, or files without either), parse_directory returns the empty list
\* without raising, and generate and validate report "no flows found" and exit
\* with status 1.
C16_NoFlowsFound ==
    (Returned /\ NoFlowInput) =>
        /\ flows = <<>>
        /\ raised = NoneVal
        /\ pc = "exited" => (exit_code = <<1>> /\ echoed = <<"no_flows_found">>)

\* --- C18 ------------------------------------------------------------------
\* The Flows that the run returns for file i.
FlowsOfFile(i) ==
    IF mode = "file" THEN ParseFileFlows(files[i].tree)
    ELSE ParseTreeWithRegistry(files[i].tree, reg_steps)

\* The identifiers of the steps defined in a file other than file i.
StepsOfOtherFiles(i) ==
    UNION {LocalStepNames(files[j].tree) : j \in {k \in DOMAIN files : k # i /\ files[k].ok}}

\* C18: in every Flow returned, the source of each edge is the identifier of a step
\* of that Flow, and the target of each edge is the identifier of a step of that
\* Flow or of a step defined in another file.
C18_EdgesWithinFlowOrCrossFile ==
    (pc \in {"done", "exited"} /\ raised = NoneVal) =>
        /\ flows = Concat([i \in DOMAIN ParsedFiles |->
                              FlowsOfFile(CHOOSE j \in DOMAIN files : files[j] = ParsedFiles[i])])
        /\ \A i \in DOMAIN files : files[i].ok =>
              \A n \in DOMAIN FlowsOfFile(i) :
                 LET flow == FlowsOfFile(i)[n]
                     ids  == {flow.steps[k].function_name : k \in DOMAIN flow.steps}
                 IN  \A e \in DOMAIN flow.edges :
                        /\ flow.edges[e].from_step \in ids
                        /\ flow.edges[e].to_step \in ids \cup StepsOfOtherFiles(i)

-----------------------------------------------------------------------------
(* Module paths: parse_directory designates the root and _path_to_module    *)
(* converts the path of a discovered file.  A path is the sequence of its   *)
(* parts, the first part of an absolute path being "/".                     *)

\* The roots given: /p, /p/src, p and Path("."), whose parts are <<>>.
PathRoots == {<<<<"/">>, <<"p">>>>, <<<<"/">>, <<"p">>, <<"src">>>>, <<<<"p">>>>, <<>>}

\* The values of src_root: None, or one of /p, /p/src, /q, p, ".", ../p and
\* the file /p/a.py.
PathSrcRoots ==
    {<<>>}
    \cup {<<s>> : s \in {<<<<"/">>, <<"p">>>>, <<<<"/">>, <<"p">>, <<"src">>>>,
                         <<<<"/">>, <<"q">>>>, <<<<"p">>>>, <<>>,
                         <<<<"..">>, <<"p">>>>,
                         <<<<"/">>, <<"p">>, <<"a", ".", "py">>>>}}

\* The working directory of the runs.
PathCwd == <<<<"/">>, <<"w">>>>

\* File systems: no link; the file /p/a.py a link to a file outside /p; the
\* directory /p/src/orders a link to a directory outside /p; /p/a.py a link to
\* a link that leads back below /p; /p/a.py a link to a file below /p; /p/src a
\* link to /x and /x/orders a link to /y.
PathLinks ==
    {{},
     {[from |-> <<<<"/">>, <<"p">>, <<"a", ".", "py">>>>,
       to |-> <<<<"/">>, <<"ext">>, <<"t", ".", "py">>>>]},
     {[from |-> <<<<"/">>, <<"p">>, <<"src">>, <<"orders">>>>,
       to |-> <<<<"/">>, <<"ext">>, <<"orders">>>>]},
     {[from |-> <<<<"/">>, <<"p">>, <<"a", ".", "py">>>>,
       to |-> <<<<"/">>, <<"q">>, <<"b", ".", "py">>>>],
      [from |-> <<<<"/">>, <<"q">>, <<"b", ".", "py">>>>,
       to |-> <<<<"/">>, <<"p">>, <<"sub">>, <<"c", ".", "py">>>>]},
     {[from |-> <<<<"/">>, <<"p">>, <<"a", ".", "py">>>>,
       to |-> <<<<"/">>, <<"p">>, <<"orders">>, <<"validation", ".", "py">>>>]},
     {[from |-> <<<<"/">>, <<"p">>, <<"src">>>>,
       to |-> <<<<"/">>, <<"x">>>>],
      [from |-> <<<<"/">>, <<"x">>, <<"orders">>>>,
       to |-> <<<<"/">>, <<"y">>>>]}}

\* Paths handed to _path_to_module by a caller other than parse_directory.
PathsGiven ==
    {<<<<"p">>, <<"src">>, <<"a", ".", "py">>>>,
     <<<<"/">>, <<"p">>, <<"src">>, <<"a", ".", "py">>>>,
     <<<<"/">>, <<"p">>, <<"a", ".", "py">>>>,
     <<<<"/">>, <<"p">>, <<"sub">>, <<"..">>, <<"a", ".", "py">>>>,
     <<>>}

\* Paths of files below a root directory.
PathsBelow ==
    {<<<<"a", ".", "py">>>>,
     <<<<"__init__", ".", "py">>>>,
     <<<<"orders">>, <<"validation", ".", "py">>>>,
     <<<<"orders">>, <<"__init__", ".", "py">>>>,
     <<<<"orders">>, <<"__init__">>, <<"b", ".", "py">>>>,
     <<<<"orders">>, <<"sub">>, <<"__init__", ".", "py">>>>,
     <<<<"orders">>, <<"a", ".", "b", ".", "py">>>>,
     <<<<"orders", ".", "py">>, <<"__init__", ".", "py", ".", "py">>>>}

\* parse_directory: discovery resolves the root, and the files it yields are
\* the entries below the resolved root, or the resolved root itself when it is
\* a file.  The last case is a call of _path_to_module by another caller.
PathInit ==
    /\ mode = "path"
    /\ cwd = PathCwd
    /\ symlinks \in PathLinks
    /\ \/ /\ root_is_file = FALSE /\ pc = "start"
          /\ arg_root \in PathRoots
          /\ \E rel \in PathsBelow :
                arg_file_path = ResolvePath(arg_root, cwd, symlinks) \o rel
          /\ arg_src_root \in PathSrcRoots
          /\ src_root_path = <<>>
       \/ /\ root_is_file = TRUE /\ pc = "start"
          /\ \E dir \in PathRoots, rel \in PathsBelow :
                arg_root = dir \o rel
          /\ arg_file_path = ResolvePath(arg_root, cwd, symlinks)
          /\ arg_src_root \in PathSrcRoots
          /\ src_root_path = <<>>
       \/ /\ root_is_file = FALSE /\ pc = "pass1"
          /\ arg_root = <<>>
          /\ arg_file_path \in PathsGiven
          /\ arg_src_root \in PathSrcRoots \ {<<>>}
          /\ src_root_path = arg_src_root
    /\ ret_module = <<>>
    /\ files = <<>> /\ idx = 0 /\ file_asts = <<>>
    /\ reg_steps = <<>> /\ reg_module_steps = <<>>
    /\ flows = <<>> /\ warnings = <<>> /\ raised = NoneVal
    /\ CliIdle /\ RegistryIdle /\ DiscoveryIdle

\* parse_directory, lines 484-490
DesignateRoot ==
    /\ mode = "path" /\ pc = "start"
    /\ src_root_path' = <<DesignatedRoot(arg_root, arg_src_root, root_is_file)>>
    /\ pc' = "pass1"
    /\ UNCHANGED <<mode, files, root_is_file, idx, file_asts, reg_steps, reg_module_steps,
                   flows, warnings, raised>>
    /\ UNCHANGED <<arg_root, arg_src_root, arg_file_path, ret_module, cwd, symlinks>>
    /\ UNCHANGED <<cli_vars, registry_vars, discovery_vars>>

\* parse_directory, line 508: self._path_to_module(file_path, src_root_path)
DoPathToModule ==
    /\ mode = "path" /\ pc = "pass1" /\ ret_module = <<>>
    /\ IF PathToModuleRaises(arg_file_path, src_root_path[1], cwd, symlinks)
       THEN /\ raised' = "IndexError"
            /\ pc' = "failed"
            /\ ret_module' = ret_module
       ELSE /\ ret_module' = <<PathToModuleFrom(arg_file_path, src_root_path[1], cwd,
                                                symlinks)>>
            /\ pc' = "returned"
            /\ raised' = raised
    /\ UNCHANGED <<mode, files, root_is_file, idx, file_asts, reg_steps, reg_module_steps,
                   flows, warnings>>
    /\ UNCHANGED <<arg_root, arg_src_root, src_root_path, arg_file_path, cwd, symlinks>>
    /\ UNCHANGED <<cli_vars, registry_vars, discovery_vars>>

PathNext == DesignateRoot \/ DoPathToModule

PathSpec == PathInit /\ [][PathNext]_vars

\* --- C17 ------------------------------------------------------------------
\* The root that the rule names: src_root when given, else the directory of a
\* root that is a file, else the root.
TheDesignatedRoot ==
    IF arg_src_root # <<>> THEN arg_src_root[1]
    ELSE IF root_is_file THEN SubSeq(arg_root, 1, Len(arg_root) - 1)
    ELSE arg_root

\* A path as an absolute path without "..", links not followed.
Absolute(path) == ResolvePath(path, cwd, {})

\* The file lies under the designated root: its absolute path goes through
\* the absolute path of the root.
UnderDesignatedRoot ==
    /\ Len(Absolute(TheDesignatedRoot)) < Len(Absolute(arg_file_path))
    /\ \A i \in DOMAIN Absolute(TheDesignatedRoot) :
          Absolute(arg_file_path)[i] = Absolute(TheDesignatedRoot)[i]

\* The parts of the file's path below the designated root.
RelativeParts ==
    [i \in 1..(Len(Absolute(arg_file_path)) - Len(Absolute(TheDesignatedRoot))) |->
        Absolute(arg_file_path)[Len(Absolute(TheDesignatedRoot)) + i]]

\* A file name without its ".py".
WithoutPy(name) ==
    IF Len(name) >= 2 /\ name[Len(name) - 1] = "." /\ name[Len(name)] = "py"
    THEN [i \in 1..(Len(name) - 2) |-> name[i]] ELSE name

\* The components of the module path of the rule.
ModuleComponents ==
    LET n     == Len(RelativeParts)
        stems == [i \in 1..n |-> IF i = n THEN WithoutPy(RelativeParts[i])
                                  ELSE RelativeParts[i]]
    IN  IF stems[n] = <<"__init__">> THEN [i \in 1..(n - 1) |-> stems[i]] ELSE stems

\* s is the components cs joined with ".".
RECURSIVE IsJoinOf(_, _)
IsJoinOf(s, cs) ==
    IF cs = <<>> THEN s = <<>>
    ELSE /\ Len(s) >= Len(cs[1])
         /\ SubSeq(s, 1, Len(cs[1])) = cs[1]
         /\ IF Len(cs) = 1 THEN Len(s) = Len(cs[1])
            ELSE /\ Len(s) > Len(cs[1]) /\ s[Len(cs[1]) + 1] = "."
                 /\ IsJoinOf(SubSeq(s, Len(cs[1]) + 2, Len(s)), Tail(cs))

\* C17: for a file under the designated root, _path_to_module returns the parts of
\* the path relative to that root, ".py" stripped from the last part, a trailing
\* "__init__" part dropped, the rest joined with "."; orders/validation.py gives
\* "orders.validation" and orders/__init__.py gives "orders".
C17_ModulePathRule ==
    (ret_module # <<>> /\ UnderDesignatedRoot) =>
        /\ src_root_path = <<TheDesignatedRoot>>
        /\ IsJoinOf(ret_module[1], ModuleComponents)
        /\ RelativeParts = <<<<"orders">>, <<"validation", ".", "py">>>>
              => ret_module[1] = <<"orders", ".", "validation">>
        /\ RelativeParts = <<<<"orders">>, <<"__init__", ".", "py">>>>
              => ret_module[1] = <<"orders">>

\* The rule on the file systems that hold no symbolic link.
ModulePathRuleWithoutLinks == symlinks = {} => C17_ModulePathRule

\* The package file of a directory below a root that lies below the given src_root.
C17_Witness ==
    /\ ret_module # <<>> /\ UnderDesignatedRoot
    /\ arg_src_root # <<>> /\ arg_src_root[1] # arg_root /\ ~root_is_file
    /\ RelativeParts = <<<<"src">>, <<"orders">>, <<"__init__", ".", "py">>>>
    /\ ret_module[1] = <<"src", ".", "orders">>

-----------------------------------------------------------------------------
(* discover_python_files (src/flowdoc/discovery.py).  A name is the sequence *)
(* of its characters.  A node of the file system is                         *)
(*   [name, kind, readable, searchable, children]                           *)
(* with kind "dir", "file", "other" (neither file nor directory) or         *)
(* "missing" (the path does not exist); readable FALSE for a directory      *)
(* whose iterdir raises PermissionError; searchable FALSE for a directory   *)
(* that may be listed but whose entries may not be examined (is_dir on an   *)
(* entry raises PermissionError); children the set of nodes of a            *)
(* directory.  A path is the sequence of names from the root down, the      *)
(* root's own path being <<>>.  The root node is the node that the resolved *)
(* root names (line 52).                                                    *)

\* ord(c) for the characters of the names in use
Ord(c) ==
    CASE
            c = "-" -> 45
         [] c = "." -> 46
         [] c = "_" -> 95
         [] c = "a" -> 97
         [] c = "b" -> 98
         [] c = "c" -> 99
         [] c = "d" -> 100
         [] c = "e" -> 101
         [] c = "f" -> 102
         [] c = "g" -> 103
         [] c = "h" -> 104
         [] c = "i" -> 105
         [] c = "k" -> 107
         [] c = "l" -> 108
         [] c = "m" -> 109
         [] c = "n" -> 110
         [] c = "o" -> 111
         [] c = "p" -> 112
         [] c = "r" -> 114
         [] c = "s" -> 115
         [] c = "t" -> 116
         [] c = "u" -> 117
         [] c = "v" -> 118
         [] c = "x" -> 120
         [] c = "y" -> 121
         [] c = "z" -> 122

DEFAULT_EXCLUDES ==
    {<<"_", "_", "p", "y", "c", "a", "c", "h", "e", "_", "_">>,
     <<".", "g", "i", "t">>,
     <<".", "h", "g">>,
     <<".", "s", "v", "n">>,
     <<".", "v", "e", "n", "v">>,
     <<"v", "e", "n", "v">>,
     <<"e", "n", "v">>,
     <<".", "e", "n", "v">>,
     <<".", "t", "o", "x">>,
     <<".", "n", "o", "x">>,
     <<".", "p", "y", "t", "e", "s", "t", "_", "c", "a", "c", "h", "e">>,
     <<".", "m", "y", "p", "y", "_", "c", "a", "c", "h", "e">>,
     <<".", "r", "u", "f", "f", "_", "c", "a", "c", "h", "e">>,
     <<"n", "o", "d", "e", "_", "m", "o", "d", "u", "l", "e", "s">>,
     <<"t", "e", "s", "t", "s">>,
     <<"t", "e", "s", "t">>}

\* str < str: lexicographic by code point, a proper prefix first.
RECURSIVE StrLess(_, _)
StrLess(a, b) ==
    IF b = <<>> THEN FALSE
    ELSE IF a = <<>> THEN TRUE
    ELSE IF Ord(Head(a)) # Ord(Head(b)) THEN Ord(Head(a)) < Ord(Head(b))
    ELSE StrLess(Tail(a), Tail(b))

\* Path < Path: the lists of parts compare lexicographically, part by part.
RECURSIVE PathLess(_, _)
PathLess(p, q) ==
    IF q = <<>> THEN FALSE
    ELSE IF p = <<>> THEN TRUE
    ELSE IF Head(p) # Head(q) THEN StrLess(Head(p), Head(q))
    ELSE PathLess(Tail(p), Tail(q))

StartsWith(s, prefix) ==
    Len(prefix) <= Len(s) /\ SubSeq(s, 1, Len(prefix)) = prefix

\* is_test_file
IsTestFile(name) ==
    \/ StartsWith(Stem(name), <<"t", "e", "s", "t", "_">>)
    \/ EndsWith(Stem(name), <<"_", "t", "e", "s", "t">>)
    \/ Stem(name) = <<"c", "o", "n", "f", "t", "e", "s", "t">>

\* _should_exclude_dir with the caller's names alone: the default names are dropped.
ShouldExcludeDirExtraOnly(name, more) ==
    \/ StartsWith(name, <<".">>)
    \/ name \in (IF more = {} THEN DEFAULT_EXCLUDES ELSE more)

\* _should_exclude_dir, with excludes = DEFAULT_EXCLUDES | (exclude_patterns or set())
ShouldExcludeDir(name, more) ==
    \/ StartsWith(name, <<".">>)
    \/ name \in (DEFAULT_EXCLUDES \cup more)

\* The entries in the order iterdir gave them.
UnsortedEntries(entries) == entries

\* sorted(directory.iterdir()): the entries of one directory by ascending name.
RECURSIVE SortedEntries(_)
SortedEntries(entries) ==
    IF entries = <<>> THEN <<>>
    ELSE LET least == CHOOSE i \in DOMAIN entries :
                          \A j \in DOMAIN entries :
                              j # i => PathLess(entries[i].path, entries[j].path)
         IN  <<entries[least]>>
             \o SortedEntries([k \in 1..(Len(entries) - 1) |->
                                  IF k < least THEN entries[k] ELSE entries[k + 1]])

\* The orders in which iterdir may yield the children of a directory.
IterdirOrders(children) ==
    {order \in [1..Cardinality(children) -> children] :
        \A i, j \in DOMAIN order : i # j => order[i] # order[j]}

\* The entries of a directory as iterdir yields them in one order; denied for
\* the entries of a directory that may not be searched.
Entries(path, order, denied) ==
    [i \in DOMAIN order |->
        [path |-> Append(path, order[i].name), node |-> order[i], denied |-> denied]]

\* --- the file systems searched ---------------------------------------------
MaxEntries == 3   \* entries of a generated root directory

FileNode(name) ==
    [name |-> name, kind |-> "file", readable |-> TRUE, searchable |-> TRUE,
     children |-> {}]
DirNode(name, children) ==
    [name |-> name, kind |-> "dir", readable |-> TRUE, searchable |-> TRUE,
     children |-> children]
LockedDirNode(name, children) ==
    [name |-> name, kind |-> "dir", readable |-> FALSE, searchable |-> FALSE,
     children |-> children]
ListedDirNode(name, children) ==
    [name |-> name, kind |-> "dir", readable |-> TRUE, searchable |-> FALSE,
     children |-> children]

N_m_py == <<"m", ".", "p", "y">>
N_z_py == <<"z", ".", "p", "y">>
N_b_py == <<"b", ".", "p", "y">>
N_init_py == <<"_", "_", "i", "n", "i", "t", "_", "_", ".", "p", "y">>
N_test_m_py == <<"t", "e", "s", "t", "_", "m", ".", "p", "y">>
N_m_test_py == <<"m", "_", "t", "e", "s", "t", ".", "p", "y">>
N_conftest_py == <<"c", "o", "n", "f", "t", "e", "s", "t", ".", "p", "y">>
N_m_txt == <<"m", ".", "t", "x", "t">>
N_hidden_py == <<".", "h", ".", "p", "y">>
N_env_py == <<"e", "n", "v", ".", "p", "y">>
N_a == <<"a">>
N_a_b == <<"a", "-", "b">>
N_pkg == <<"p", "k", "g">>
N_sub == <<"s", "u", "b">>
N_tests == <<"t", "e", "s", "t", "s">>
N_git == <<".", "g", "i", "t">>
N_skip == <<"s", "k", "i", "p">>
N_locked == <<"l", "o", "c", "k", "e", "d">>
N_listed == <<"l", "i", "s", "t", "e", "d">>
N_x_py == <<"x", ".", "p", "y">>
N_venv == <<"v", "e", "n", "v">>
N_node_modules == <<"n", "o", "d", "e", "_", "m", "o", "d", "u", "l", "e", "s">>

RootFiles ==
    {FileNode(n) : n \in {N_m_py, N_z_py, N_test_m_py, N_m_test_py, N_conftest_py,
                          N_m_txt, N_hidden_py, N_env_py}}

RootDirs ==
    {DirNode(N_a, {FileNode(N_b_py)}),
     DirNode(N_a_b, {FileNode(N_m_py)}),
     DirNode(N_pkg, {FileNode(N_init_py), FileNode(N_test_m_py),
                     DirNode(N_sub, {FileNode(N_z_py), FileNode(N_m_test_py)}),
                     DirNode(N_tests, {FileNode(N_m_py)})}),
     DirNode(N_tests, {FileNode(N_m_py)}),
     DirNode(N_git, {FileNode(N_m_py)}),
     DirNode(N_skip, {FileNode(N_m_py), DirNode(N_a, {FileNode(N_z_py)})}),
     DirNode(N_venv, {DirNode(N_pkg, {FileNode(N_m_py)})}),
     LockedDirNode(N_locked, {FileNode(N_m_py)}),
     ListedDirNode(N_listed, {FileNode(N_m_py)}),
     DirNode(N_x_py, {FileNode(N_b_py), DirNode(N_node_modules, {FileNode(N_m_py)})})}

\* The sets of at most n elements of S.
SubsetsUpTo(S, n) == {T \in SUBSET S : Cardinality(T) <= n}

RootNodes ==
    {DirNode(<<>>, children) : children \in SubsetsUpTo(RootFiles \cup RootDirs, MaxEntries)}
    \cup {LockedDirNode(<<>>, {FileNode(N_m_py)}),
          ListedDirNode(<<>>, {FileNode(N_m_py)}),
          ListedDirNode(<<>>, {}),
          FileNode(N_m_py), FileNode(N_test_m_py), FileNode(N_m_txt),
          FileNode(N_hidden_py),
          [name |-> N_m_py, kind |-> "missing", readable |-> FALSE,
           searchable |-> FALSE, children |-> {}],
          [name |-> N_m_py, kind |-> "other", readable |-> FALSE,
           searchable |-> FALSE, children |-> {}]}

ExcludeSets == {{}, {N_skip}, {N_a, N_m_py}}

DiscoveryInit ==
    /\ mode = "discover" /\ pc = "start"
    /\ root_dir \in {<<n>> : n \in RootNodes}
    /\ exclude_patterns \in ExcludeSets
    /\ walk = <<>> /\ python_files = <<>>
    /\ files = <<>> /\ root_is_file = FALSE /\ idx = 0 /\ file_asts = <<>>
    /\ reg_steps = <<>> /\ reg_module_steps = <<>>
    /\ flows = <<>> /\ warnings = <<>> /\ raised = NoneVal
    /\ CliIdle /\ RegistryIdle /\ PathIdle

\* Every root that cannot be searched raises the same exception.
RootErrorAlwaysValueError(root) ==
    IF root.kind = "missing" THEN "ValueError"
    ELSE IF root.kind = "file"
    THEN IF Suffix(root.name) = <<".", "p", "y">> THEN NoneVal ELSE "ValueError"
    ELSE IF root.kind # "dir" THEN "ValueError"
    ELSE NoneVal

\* discover_python_files, lines 54-63: the exception the checks on the root raise,
\* NoneVal when they raise none.
RootError(root) ==
    IF root.kind = "missing" THEN "FileNotFoundError"
    ELSE IF root.kind = "file"
    THEN IF Suffix(root.name) = <<".", "p", "y">> THEN NoneVal ELSE "ValueError"
    ELSE IF root.kind # "dir" THEN "ValueError"
    ELSE NoneVal

\* discover_python_files, lines 52-66 and 87: the checks on the root, and the call
\* _walk(root) for a directory.
Discover ==
    /\ mode = "discover" /\ pc = "start"
    /\ LET root == root_dir[1]
       IN  IF RootError(root) # NoneVal
           THEN raised' = RootError(root) /\ pc' = "done"
                /\ UNCHANGED <<walk, python_files>>
           ELSE IF root.kind = "file"
           THEN python_files' = <<<<root.name>>>> /\ pc' = "done"
                /\ UNCHANGED <<walk, raised>>
           ELSE /\ walk' = <<[path |-> <<>>, node |-> root, denied |-> FALSE]>>
                /\ pc' = "walk"
                /\ UNCHANGED <<python_files, raised>>
    /\ UNCHANGED <<mode, files, root_is_file, idx, file_asts, reg_steps, reg_module_steps,
                   flows, warnings>>
    /\ UNCHANGED <<root_dir, exclude_patterns, cli_vars, registry_vars, path_vars>>

\* _walk(directory), lines 74-77, for the directory that is next: its entries,
\* sorted, are visited before what was left to visit.  The root is walked whatever
\* its name; any other directory is walked unless _should_exclude_dir (line 81).
WalkDirectory ==
    /\ pc = "walk" /\ walk # <<>>
    /\ ~Head(walk).denied
    /\ Head(walk).node.kind = "dir"
    /\ LET directory == Head(walk)
       IN  IF directory.path # <<>>
              /\ ShouldExcludeDir(directory.node.name, exclude_patterns)
           THEN walk' = Tail(walk)
           ELSE IF ~directory.node.readable
           THEN walk' = Tail(walk)
           ELSE \E order \in IterdirOrders(directory.node.children) :
                   walk' = SortedEntries(Entries(directory.path, order,
                                                 ~directory.node.searchable))
                           \o Tail(walk)
    /\ UNCHANGED <<python_files, root_dir, exclude_patterns>>
    /\ UNCHANGED <<parser_vars, cli_vars, registry_vars, path_vars>>

\* _walk, lines 83-85, for the entry that is next and is no directory.
WalkFile ==
    /\ pc = "walk" /\ walk # <<>>
    /\ ~Head(walk).denied
    /\ Head(walk).node.kind # "dir"
    /\ LET entry == Head(walk)
       IN  python_files' =
               IF /\ entry.node.kind = "file"
                  /\ Suffix(entry.node.name) = <<".", "p", "y">>
                  /\ ~IsTestFile(entry.node.name)
               THEN Append(python_files, entry.path)
               ELSE python_files
    /\ walk' = Tail(walk)
    /\ UNCHANGED <<root_dir, exclude_patterns>>
    /\ UNCHANGED <<parser_vars, cli_vars, registry_vars, path_vars>>

\* _walk, line 80, for the entry that is next in a directory that may be
\* listed but not searched: entry.is_dir() raises PermissionError, outside the
\* try of lines 74-77, and the exception leaves discover_python_files.
WalkRaises ==
    /\ pc = "walk" /\ walk # <<>>
    /\ Head(walk).denied
    /\ raised' = "PermissionError"
    /\ pc' = "done"
    /\ UNCHANGED <<mode, files, root_is_file, idx, file_asts, reg_steps, reg_module_steps,
                   flows, warnings>>
    /\ UNCHANGED <<discovery_vars, cli_vars, registry_vars, path_vars>>

\* discover_python_files, line 88
ReturnFiles ==
    /\ pc = "walk" /\ walk = <<>>
    /\ pc' = "done"
    /\ UNCHANGED <<mode, files, root_is_file, idx, file_asts, reg_steps, reg_module_steps,
                   flows, warnings, raised>>
    /\ UNCHANGED <<discovery_vars, cli_vars, registry_vars, path_vars>>

DiscoveryNext == Discover \/ WalkDirectory \/ WalkFile \/ WalkRaises \/ ReturnFiles

DiscoverySpec == DiscoveryInit /\ [][DiscoveryNext]_vars

\* --- C19, C20 -------------------------------------------------------------
\* discover_python_files returned a list.
Discovered == mode = "discover" /\ pc = "done" /\ raised = NoneVal

\* Every node below a node, with its path and the directories passed on the way
\* down to it (the node the search began at is not one of them).
RECURSIVE NodesBelow(_, _, _)
NodesBelow(node, path, through) ==
    UNION {{[path |-> Append(path, c.name), node |-> c, through |-> through]}
           \cup (IF c.kind = "dir"
                 THEN NodesBelow(c, Append(path, c.name), through \cup {c})
                 ELSE {}) : c \in node.children}

\* A directory that the search does not enter.
Barred(dir) ==
    \/ dir.name[1] = "."
    \/ dir.name \in DEFAULT_EXCLUDES
    \/ dir.name \in exclude_patterns

\* A file name of the form test_*.py, *_test.py or conftest.py.
TestNamed(name) ==
    LET base == SubSeq(name, 1, Len(name) - 3)
    IN  \/ Len(base) >= 5 /\ SubSeq(base, 1, 5) = <<"t", "e", "s", "t", "_">>
        \/ Len(base) >= 5
           /\ SubSeq(base, Len(base) - 4, Len(base)) = <<"_", "t", "e", "s", "t">>
        \/ base = <<"c", "o", "n", "f", "t", "e", "s", "t">>

\* The paths the search is to return for the directory root_dir[1].
Discoverable ==
    {n.path : n \in {m \in NodesBelow(root_dir[1], <<>>, {}) :
        /\ m.node.kind = "file"
        /\ Len(m.node.name) > 3
        /\ SubSeq(m.node.name, Len(m.node.name) - 2, Len(m.node.name)) = <<".", "p", "y">>
        /\ ~TestNamed(m.node.name)
        /\ root_dir[1].readable
        /\ \A d \in m.through : d.readable /\ ~Barred(d)}}

\* C19: discover_python_files returns its paths in ascending path order, for flat
\* and nested trees alike, with no path twice, and the list is a function of the
\* tree and the exclude set: whatever order the directories were read in, it is
\* the ascending list of the same paths.
C19_SortedDeterministic ==
    Discovered =>
        /\ \A i, j \in DOMAIN python_files :
              i < j => PathLess(python_files[i], python_files[j])
        /\ \A i, j \in DOMAIN python_files :
              i # j => python_files[i] # python_files[j]
        /\ root_dir[1].kind = "dir" => Range(python_files) = Discoverable

\* A nested tree: files of two subdirectories around a file of the root.
C19_Witness ==
    /\ Discovered /\ root_dir[1].kind = "dir"
    /\ Len(python_files) >= 3
    /\ \E i, j, k \in DOMAIN python_files :
          /\ i < j /\ j < k
          /\ Len(python_files[i]) = 2 /\ Len(python_files[j]) = 1
          /\ Len(python_files[k]) >= 2

\* C20: for a directory root, discover_python_files returns exactly the ".py"
\* files reachable from the root through directories none of which, below the
\* root, has a name starting with ".", a name in DEFAULT_EXCLUDES or a name in the
\* caller's exclude set, without the files named test_*, *_test or conftest; the
\* default names stay excluded when the caller supplies names.
C20_ExactlyTheSourceFiles ==
    (Discovered /\ root_dir[1].kind = "dir") =>
        /\ Range(python_files) = Discoverable
        /\ Len(python_files) = Cardinality(Discoverable)

\* The caller supplied names; a directory excluded by default, one excluded by the
\* caller and a test file were passed over, and a file was found.
C20_Witness ==
    /\ Discovered /\ root_dir[1].kind = "dir"
    /\ exclude_patterns # {}
    /\ \E c \in root_dir[1].children :
          c.kind = "dir" /\ c.name \in DEFAULT_EXCLUDES /\ c.children # {}
    /\ \E c \in root_dir[1].children :
          c.kind = "dir" /\ c.name \in exclude_patterns /\ c.children # {}
    /\ python_files # <<>>
    /\ Cardinality(root_dir[1].children) = MaxEntries

\* --- C21, C22 -------------------------------------------------------------
\* C21: the list handed to the extractor holds no hidden path and no test-named
\* path: for every root that discover_python_files accepts, a directory or one .py
\* file, no path returned has a file name that starts with "." or that has the form
\* test_*, *_test or conftest.
C21_NoHiddenNoTestNamed ==
    Discovered =>
        \A i \in DOMAIN python_files :
            LET name == python_files[i][Len(python_files[i])]
            IN  name[1] # "." /\ ~TestNamed(name)

\* C22: discover_python_files signals two different errors and returns no list in
\* either: a root that does not exist raises FileNotFoundError, a root that exists
\* but is neither a .py file nor a directory raises ValueError; a root that is a
\* .py file returns the list of that one path.  Neither error is raised for a
\* root that is a directory.
C22_RootErrors ==
    (mode = "discover" /\ pc = "done") =>
        LET root == root_dir[1]
            py   == /\ Len(root.name) > 3
                    /\ SubSeq(root.name, Len(root.name) - 2, Len(root.name))
                          = <<".", "p", "y">>
        IN  /\ root.kind = "missing" =>
                  raised = "FileNotFoundError" /\ python_files = <<>>
            /\ (root.kind = "other" \/ (root.kind = "file" /\ ~py)) =>
                  raised = "ValueError" /\ python_files = <<>>
            /\ (root.kind = "file" /\ py) =>
                  raised = NoneVal /\ python_files = <<<<root.name>>>>
            /\ root.kind = "dir" => raised \notin {"FileNotFoundError", "ValueError"}

\* The search ended on a root that does not exist.
C22_Witness ==
    /\ mode = "discover" /\ pc = "done"
    /\ root_dir[1].kind = "missing"
    /\ raised = "FileNotFoundError"

\* --- C23 ------------------------------------------------------------------
\* The step names known when the calls of file i are resolved.
KnownFor(i) ==
    IF mode = "file" THEN LocalStepNames(files[i].tree)
    ELSE CombinedSteps(files[i].tree, reg_steps)

\* The calls of an expression in source order: the call, then its arguments.
RECURSIVE CallsIn(_)
CallsIn(c) == <<c>> \o Concat([i \in DOMAIN c.args |-> CallsIn(c.args[i])])

\* The edges of the calls of one expression that are calls of a known step,
\* under a given label.
LabelledCalls(c, label, known) ==
    LET hits == SelectSeq(CallsIn(c),
                          LAMBDA x : /\ x.shape \in {"self", "name"}
                                     /\ x.id \in known)
    IN  [i \in DOMAIN hits |-> Edge("", hits[i].id, label)]

\* The edges of the call sites in the statements and arms of ss, each labelled with
\* the arm of the innermost conditional around it, arm being the label outside ss.
RECURSIVE ArmCalls(_, _, _)
ArmCalls(ss, arm, known) ==
    IF ss = <<>> THEN <<>>
    ELSE LET s == Head(ss)
         IN  (IF s.kind = "if"
              THEN ArmCalls(s.body, "if", known) \o ArmCalls(s.orelse, "else", known)
              ELSE IF s.kind = "block" THEN ArmCalls(s.body, arm, known)
              ELSE LabelledCalls(s.call, arm, known))
             \o ArmCalls(Tail(ss), arm, known)

\* The function definitions of file i, methods included.
FunctionDefsOf(i) == WalkFunctionDefs(files[i].tree)

\* C23: the branch label of every recorded edge is the arm of the innermost
\* conditional whose arm holds the call site, and absent when no arm holds it:
\* the visitor leaves every statement list with the slot as it found it, whatever
\* the nesting and with or without an else arm, so a call after a nested
\* conditional in an outer arm has the outer arm's label and a call after a
\* top-level conditional has none.
C23_InnermostArmLabel ==
    (Done /\ raised = NoneVal /\ mode \in {"file", "dir"}) =>
        \A i \in DOMAIN files : files[i].ok =>
            /\ \A n \in DOMAIN FunctionDefsOf(i) :
                  LET node == FunctionDefsOf(i)[n]
                      body == VisitStmts(node.body, NewVisitor, KnownFor(i))
                  IN  /\ body.calls_to_steps = ArmCalls(node.body, NoneVal, KnownFor(i))
                      /\ \A b \in {NoneVal, "if", "else"} :
                            VisitStmts(node.body,
                                       [calls_to_steps |-> <<>>, current_branch |-> b],
                                       KnownFor(i)).current_branch = b
                      /\ FindStepCalls(node, KnownFor(i))
                            = body.calls_to_steps
                              \o VisitDecorators(node.decorators, NewVisitor,
                                                 KnownFor(i)).calls_to_steps
            /\ \A f \in DOMAIN FlowsOfFile(i) : \A k \in DOMAIN FlowsOfFile(i)[f].steps :
                  \E n \in DOMAIN FunctionDefsOf(i) :
                     /\ FunctionDefsOf(i)[n].name = FlowsOfFile(i)[f].steps[k].function_name
                     /\ FlowsOfFile(i)[f].steps[k].calls
                           = FindStepCalls(FunctionDefsOf(i)[n], KnownFor(i))

\* A step whose body is a conditional holding a nested conditional and then a
\* call, followed by a call outside every conditional.
C23_Witness ==
    /\ Done /\ mode = "file" /\ OneParsedFile
    /\ \E f \in DOMAIN flows : \E k \in DOMAIN flows[f].steps :
          flows[f].steps[k].calls =
              <<Edge("", "b", "if"), Edge("", "c", "if"), Edge("", "b", "else"),
                Edge("", "b", NoneVal)>>

\* --- C24 ------------------------------------------------------------------
\* The targets of the calls of one expression that are calls of a known step.
KnownTargets(c, known) ==
    LET hits == LabelledCalls(c, NoneVal, known)
    IN  [i \in DOMAIN hits |-> hits[i].to_step]

\* The targets of the call sites of ss in source order: the condition of a
\* conditional, then its body, then its orelse.
RECURSIVE CallSites(_, _)
CallSites(ss, known) ==
    IF ss = <<>> THEN <<>>
    ELSE LET s == Head(ss)
         IN  (IF s.kind = "if"
              THEN Concat([i \in DOMAIN s.test |-> KnownTargets(s.test[i], known)])
                   \o CallSites(s.body, known) \o CallSites(s.orelse, known)
              ELSE IF s.kind = "block" THEN CallSites(s.body, known)
              ELSE KnownTargets(s.call, known))
             \o CallSites(Tail(ss), known)

\* The targets of a sequence of edges.
Targets(edges) == [i \in DOMAIN edges |-> edges[i].to_step]

\* C24: every call in a step's body (statement, argument, condition of a
\* conditional, either arm) on self or on a bare name whose target is a known
\* step yields exactly one edge, and the edges are in source order.
C24_EveryCallSiteOneEdge ==
    (Done /\ raised = NoneVal /\ mode \in {"file", "dir"}) =>
        \A i \in DOMAIN files : files[i].ok =>
            \A n \in DOMAIN FunctionDefsOf(i) :
               Targets(VisitStmts(FunctionDefsOf(i)[n].body, NewVisitor,
                                  KnownFor(i)).calls_to_steps)
                  = CallSites(FunctionDefsOf(i)[n].body, KnownFor(i))

\* --- C25 ------------------------------------------------------------------
\* The two files of a directory with their contents exchanged.
Exchanged ==
    <<[files[1] EXCEPT !.tree = files[2].tree, !.ok = files[2].ok],
      [files[2] EXCEPT !.tree = files[1].tree, !.ok = files[1].ok]>>

\* The flows of the files that parsed, assembled with a given set of known names.
FlowsKnowing(fs, known) ==
    Concat([i \in DOMAIN SelectSeq(fs, LAMBDA f : f.ok) |->
               LET tree == SelectSeq(fs, LAMBDA f : f.ok)[i].tree
               IN  TreeFlows(tree, Range(DictKeys(CollectAllSteps(tree))), known)])

\* C25: in parse_directory no file is assembled before every file has been parsed
\* and registered; so a call in an early file to a step defined only in a later
\* file gives an edge, and the edges do not depend on the position of the
\* defining file.
C25_PassBarrier ==
    (mode = "dir" /\ raised = NoneVal) =>
        /\ pc = "pass1" => flows = <<>>
        /\ pc \in {"pass2", "done", "exited"} =>
              /\ [steps |-> reg_steps, module_steps |-> reg_module_steps]
                    = DirRegistry(NewRegistry, files, root_is_file)
              /\ Len(file_asts) = Len(ParsedFiles)
        /\ pc \in {"done", "exited"} =>
              /\ flows = FlowsKnowing(files, KnownAtResolution)
              /\ Len(files) = 2 =>
                    DirFlows(Exchanged, root_is_file)
                       = FlowsKnowing(Exchanged, KnownAtResolution)

\* The first file calls b, which only the second file defines, and the flow of
\* the first file has the edge.
C25_Witness ==
    /\ mode = "dir" /\ pc = "done" /\ Len(files) = 2
    /\ files[1].ok /\ files[2].ok
    /\ "b" \notin LocalStepNames(files[1].tree)
    /\ "b" \in LocalStepNames(files[2].tree)
    /\ \E f \in DOMAIN flows : Edge("a", "b", NoneVal) \in Range(flows[f].edges)

\* --- C26 ------------------------------------------------------------------
\* The module path under which the first loop registers the steps of file i.
ModuleOf(i) == ModulePathOf(files[i], root_is_file)

\* The number of calls of register the first loop makes for the files fs.
RECURSIVE RegisterCalls(_)
RegisterCalls(fs) ==
    IF fs = <<>> THEN 0
    ELSE (IF Head(fs).ok THEN Len(FileRegistrations(Head(fs).tree)) ELSE 0)
         + RegisterCalls(Tail(fs))

\* C26: the registrations of different files touch disjoint keys: two distinct
\* discovered files never have the same module path, and over one run of
\* parse_directory every key of the registry is written at most once.
C26_DisjointKeys ==
    (mode = "dir" /\ pc \in {"pass2", "done", "exited"} /\ raised = NoneVal) =>
        /\ \A i, j \in DOMAIN files :
              (i # j /\ files[i].ok /\ files[j].ok) => ModuleOf(i) # ModuleOf(j)
        /\ Len(reg_steps) = RegisterCalls(files)

\* --- C27 ------------------------------------------------------------------
\* The registry as the run holds it.
TheRegistry == [steps |-> reg_steps, module_steps |-> reg_module_steps]

\* The flows of the parsed files assembled one by one against a registry reg, the
\* files taken in the order given by the sequence of indices order.
RECURSIVE AssembledInOrder(_, _)
AssembledInOrder(order, reg) ==
    IF order = <<>> THEN <<>>
    ELSE <<[file |-> Head(order),
            flows |-> ParseTreeWithRegistry(files[Head(order)].tree, reg.steps)]>>
         \o AssembledInOrder(Tail(order),
                             [reg EXCEPT !.steps =
                                 StepsAfterAssembly(files[Head(order)].tree, reg.steps)])

\* The sequence s backwards.
Reversed(s) == [i \in DOMAIN s |-> s[Len(s) + 1 - i]]

\* C27: the second loop changes no shared state: assembling the flows of a file
\* leaves the registry's keys, stored steps and per-module index as they were, so
\* the flows of a file are the same whatever the order of assembly.
C27_Pass2FramesRegistry ==
    /\ [][(mode = "dir" /\ pc = "pass2") =>
              UNCHANGED <<reg_steps, reg_module_steps>>]_vars
    /\ [](mode = "dir" /\ pc \in {"pass2", "done"} /\ raised = NoneVal =>
            /\ TheRegistry = DirRegistry(NewRegistry, files, root_is_file)
            /\ Range(AssembledInOrder(file_asts, TheRegistry))
                  = Range(AssembledInOrder(Reversed(file_asts), TheRegistry)))

\* Two files with steps were assembled against a registry that holds steps.
C27_Witness ==
    /\ mode = "dir" /\ pc = "done" /\ Len(file_asts) = 2
    /\ reg_steps # <<>>
    /\ ParseTreeWithRegistry(files[1].tree, reg_steps) # <<>>
    /\ ParseTreeWithRegistry(files[2].tree, reg_steps) # <<>>
    /\ Len(flows) >= 2

\* --- C28 ------------------------------------------------------------------
\* The run was given one file that parses, and has ended.
SingleFileRun == pc \in {"done", "failed"} /\ root_is_file /\ files[1].ok

\* C28 as stated: for any single file that parses, parse_directory called on the
\* path of the file returns the list of flows parse_file returns for it.
C28_EntryPointsAgree ==
    SingleFileRun =>
        /\ raised = NoneVal
        /\ flows = ParseFileFlows(files[1].tree)

\* C28, amended: for any single file that parses and whose name (that of its
\* target, for a symbolic link) has the suffix .py, parse_directory called on the
\* path of the file returns the list of flows (names, kinds, steps in order, edges
\* with branches in order) that parse_file returns for it; on a file without the
\* suffix parse_directory raises ValueError and returns nothing, while parse_file
\* returns the flows.
C28_EntryPointsAgreeOnPythonFiles ==
    SingleFileRun =>
        /\ RootIsPythonFile(files[1]) =>
              /\ raised = NoneVal
              /\ flows = ParseFileFlows(files[1].tree)
        /\ (mode = "dir" /\ ~RootIsPythonFile(files[1])) =>
              raised = "ValueError" /\ flows = <<>>
        /\ mode = "file" => raised = NoneVal /\ flows = ParseFileFlows(files[1].tree)

\* parse_directory returned, for one .py file, a flow that has a labelled edge
\* and an implicit flow is among the flows of some such run.
C28_Witness ==
    /\ SingleFileRun /\ mode = "dir" /\ RootIsPythonFile(files[1])
    /\ flows # <<>>
    /\ \E f \in DOMAIN flows :
          \E e \in DOMAIN flows[f].edges : flows[f].edges[e].branch = "else"

\* --- C29 ------------------------------------------------------------------
\* C29: within every Flow returned, container or implicit, the identifiers of the
\* steps are pairwise distinct, whatever the file holds, a name defined more than
\* once in a scope included.
C29_StepIdentifiersDistinct ==
    (pc = "done" /\ raised = NoneVal) =>
        \A f \in DOMAIN flows : Distinct(StepNames(flows[f]))

\* --- C30 ------------------------------------------------------------------
\* C30: the generate command lets no Flow overwrite the output of another within
\* a run: with or without --output the Flows rendered are written to pairwise
\* distinct paths, and the command exits with status 1 exactly when no Flow was
\* rendered.
C30_DistinctOutputPaths ==
    (pc = "exited" /\ command = "generate") =>
        /\ Distinct(written)
        /\ exit_code = <<1>> <=> written = <<>>

\* The exit status alone: generate exits with status 1 exactly when no Flow
\* was rendered.
GenerateExitStatus ==
    (pc = "exited" /\ command = "generate") =>
        (exit_code = <<1>> <=> written = <<>>)

=============================================================================
